---- MODULE Spec2Model ----
(***************************************************************************)
(* Model of the perception -> decision -> actuation pipeline of the        *)
(* raspberry_pi controller: decision/state_machine.py, perception/         *)
(* track_map.py, perception/sensor_fusion.py, strategies/*.py,             *)
(* sensors/motor.py, control/controller.py, main.py and web/server.py.     *)
(*                                                                         *)
(* Python's None is the empty sequence <<>> and a present value v is the   *)
(* one-element sequence <<v>>.                                             *)
(***************************************************************************)
EXTENDS Integers, Sequences, FiniteSets, TLC

VARIABLES
    state_machine,  \* the StateMachine object
    track_map,      \* the TrackMap object
    world,          \* the WorldState passed to the most recent decide() / update() call
    out,            \* the (speed, steering) returned by the most recent decide()
    hAvoidCalls,    \* history: decide() calls that ended in AVOID_PILLAR since it was entered
    hLatchedSeen,   \* history: a pillar of the latched colour was in a WorldState since entry
    hSightings,     \* history: corner sightings begun so far in the lap scenario
    hLeft,          \* history: corner sightings that have ended (corner left) so far
    hInSighting,    \* history: length of the run of corner_ahead ticks ending at the last tick
    objects,        \* the DetectedObject list of the most recent fusion update
    blobs,          \* the ColorBlob list of the most recent fusion update
    lidar,          \* the Lidar object, its acquisition thread and one get_scan() caller
    controller,     \* the run loop: mode, position, _running / _auto_running, keepalive flag
    motor,          \* the Motor object: target speed and steering, connection
    serial,         \* the serial link to the ESP32: last frames written, open or closed
    hFusionRaised,  \* history: the most recent tick ended with fusion raising
    threads         \* web mode, statement by statement: the event loop's request and
                    \* the keepalive pass in progress, and what the keepalive wrote

coreVars == <<state_machine, track_map, world, out>>
histVars == <<hAvoidCalls, hLatchedSeen, hSightings, hLeft, hInSighting>>
fusionVars == <<objects, blobs, lidar>>
loopVars == <<controller, motor, serial, hFusionRaised>>
raceVars == <<threads>>
vars == <<coreVars, histVars, fusionVars, loopVars, raceVars>>

(***************************************************************************)
(* Optional values and small arithmetic helpers                            *)
(***************************************************************************)
None == <<>>

Some(v) == <<v>>

IsNone(o) == o = <<>>

Val(o) == o[1]

Abs(x) == IF x < 0 THEN -x ELSE x

Max(a, b) == IF a >= b THEN a ELSE b

Min(a, b) == IF a <= b THEN a ELSE b

\* rounding toward minus infinity instead
FloorDiv(a, b) == a \div b

\* Python's int() on a quotient a / b with b > 0: truncation toward zero
TruncDiv(a, b) == IF a >= 0 THEN a \div b ELSE -((-a) \div b)

(***************************************************************************)
(* Configuration constants (config.py, strategy defaults)                  *)
(***************************************************************************)
STEERING_CENTER == 90

target_laps == 3

min_avoid_frames == 25

clear_angle == 65

clear_distance == 600

blocking_angle_threshold == 30

corner_tolerance == 100

pillar_tolerance == 50

initial_last_corner_enc == -1000

normal_speed == 60

slow_speed == 35

max_steer_offset == 80

min_steer_offset == 45

avoid_max_distance == 800

avoid_steering_min == 10

avoid_steering_max == 170

wall_steering_min == 60

wall_steering_max == 120

min_clearance == 150

turn_offset == 25

ANGLE_MATCH_THRESHOLD == 40

PILLAR_SIZE_MIN == 30

PILLAR_SIZE_MAX == 1000

pillar_max_width == 120

\* Motor.drive clamps speed to -100..100 and steering to 0..180
MOTOR_SPEED_LIMIT == 100

SERVO_RANGE == 180

(***************************************************************************)
(* WorldState (perception/world_state.py)                                  *)
(***************************************************************************)
Pillar(c, a, d) == [color |-> c, angle |-> a, distance |-> d]

WallInfo(l, r, f) == [left_distance |-> l, right_distance |-> r, front_distance |-> f]

WorldState(e, w, ps, c, pm) ==
    [encoder_pos |-> e, walls |-> w, pillars |-> ps, corner_ahead |-> c,
     parking_marker |-> pm]

\* WallInfo.corridor_width
corridor_width(w) ==
    IF IsNone(w.walls.left_distance) \/ IsNone(w.walls.right_distance)
    THEN None
    ELSE Some(Val(w.walls.left_distance) + Val(w.walls.right_distance))

\* Pillar.is_blocking
is_blocking(p) == Abs(p.angle) < blocking_angle_threshold

\* Python's min(seq, key=distance): the first element of least distance
MinByDistance(ps) ==
    LET i == CHOOSE k \in 1..Len(ps) :
                /\ \A j \in 1..Len(ps) : ps[k].distance <= ps[j].distance
                /\ \A j \in 1..(k - 1) : ps[j].distance > ps[k].distance
    IN ps[i]

\* WorldState.blocking_pillar: None or the nearest pillar that is_blocking
blocking_pillar(w) ==
    LET blocking == SelectSeq(w.pillars, is_blocking)
    IN IF blocking = <<>> THEN None ELSE Some(MinByDistance(blocking))

\* a corner that counts only while no parking marker is in view
is_corner_approaching_unless_parking(w) ==
    ~IsNone(w.corner_ahead) /\ IsNone(w.parking_marker)

is_corner_approaching(w) == ~IsNone(w.corner_ahead)

is_parking_visible(w) == ~IsNone(w.parking_marker)

(***************************************************************************)
(* Strategies (strategies/wall_follow.py, avoidance.py, corner.py)         *)
(***************************************************************************)
Clamp(x, lo, hi) == Max(lo, Min(hi, x))

\* ProportionalWallFollow.compute with kp = 0.5.  Distances are integers;
\* errors are carried doubled (err2 = 2 * error) so that corridor / 2 stays
\* exact, and int(kp * error) = trunc(err2 / 4).
wall_follow_compute(w) ==
    LET left == w.walls.left_distance
        right == w.walls.right_distance
        err2 == IF IsNone(left)
                THEN 2 * (Val(right) - min_clearance)
                ELSE IF IsNone(right)
                THEN 2 * (min_clearance - Val(left))
                ELSE LET corridor == Val(left) + Val(right)
                         target2 == Max(2 * min_clearance,
                                        Min(corridor, 2 * (corridor - min_clearance)))
                     IN 2 * Val(right) - target2
    IN IF IsNone(left) /\ IsNone(right)
       THEN <<normal_speed, STEERING_CENTER>>
       ELSE <<normal_speed,
              Clamp(STEERING_CENTER + TruncDiv(err2, 4), wall_steering_min, wall_steering_max)>>

\* ProportionalAvoidance.compute.  With x = base_offset + angle_correction,
\*   5x = 5*min + 4*direction*angle + 5*(max - min)*sqrt((800 - d)/800),
\* AvoidLe(n, ...) says n <= x, decided exactly in integers.
AvoidLe(n, k, span, lin) ==
    \/ 5 * n - k <= 0
    \/ (5 * n - k) * (5 * n - k) * avoid_max_distance <= 25 * span * span * lin

\* offset = clamp(int(x), min, max): as 0 <= min, int(x) is floor(x) wherever
\* the clamp does not already return min, so the result is the largest n in
\* min..max with n <= x, or min when there is none.
AvoidOffset(p) ==
    LET direction == IF p.color = "red" THEN -1 ELSE 1
        lin == Max(0, avoid_max_distance - p.distance)
        span == max_steer_offset - min_steer_offset
        k == 5 * min_steer_offset + 4 * direction * p.angle
    IN IF AvoidLe(max_steer_offset, k, span, lin)
       THEN max_steer_offset
       ELSE CHOOSE n \in min_steer_offset..max_steer_offset :
                /\ n = min_steer_offset \/ AvoidLe(n, k, span, lin)
                /\ ~AvoidLe(n + 1, k, span, lin)

\* the same with the two colours' sides exchanged
avoidance_compute_mirrored(p) ==
    LET direction == IF p.color = "red" THEN 1 ELSE -1
    IN <<slow_speed,
         Clamp(STEERING_CENTER + direction * AvoidOffset(p),
               avoid_steering_min, avoid_steering_max)>>

avoidance_compute(p) ==
    LET direction == IF p.color = "red" THEN -1 ELSE 1
    IN <<slow_speed,
         Clamp(STEERING_CENTER + direction * AvoidOffset(p),
               avoid_steering_min, avoid_steering_max)>>

\* LidarCornerDetection.compute
corner_compute(direction) ==
    IF direction = "LEFT"
    THEN <<slow_speed, STEERING_CENTER - turn_offset>>
    ELSE <<slow_speed, STEERING_CENTER + turn_offset>>

(***************************************************************************)
(* TrackMap (perception/track_map.py)                                      *)
(***************************************************************************)
TrackMapInit ==
    [direction |-> None, corners |-> <<>>, sections |-> <<>>, pillars |-> <<>>,
     parking_zone |-> None, lap_length |-> None, first_lap |-> TRUE,
     lap_start |-> None, last_corner_enc |-> initial_last_corner_enc,
     section_start |-> None, section_widths |-> <<>>]

corner_count(tm) == Len(tm.corners)

RECURSIVE SumSeq(_)
SumSeq(s) == IF s = <<>> THEN 0 ELSE Head(s) + SumSeq(Tail(s))

\* _finalize_section: the average width is kept as the exact pair <<sum, count>>
finalize_section(tm, end_encoder) ==
    IF IsNone(tm.section_start) \/ tm.section_widths = <<>>
    THEN tm
    ELSE [tm EXCEPT !.sections =
            Append(@, [start_encoder |-> Val(tm.section_start),
                       end_encoder |-> end_encoder,
                       width |-> <<SumSeq(tm.section_widths), Len(tm.section_widths)>>])]

\* a duplicate test one tick too narrow
IsDuplicateCorner_loose(encoder, last_enc) == Abs(encoder - last_enc) < corner_tolerance - 1

\* the duplicate test of _update_corners
IsDuplicateCorner(encoder, last_enc) == Abs(encoder - last_enc) < corner_tolerance

update_corners(tm, w) ==
    IF IsNone(w.corner_ahead)
    THEN tm
    ELSE IF IsDuplicateCorner(w.encoder_pos, tm.last_corner_enc)
    THEN tm
    ELSE LET t1 == [tm EXCEPT
                      !.corners = Append(@, [encoder_pos |-> w.encoder_pos,
                                             direction |-> Val(w.corner_ahead)]),
                      !.last_corner_enc = w.encoder_pos]
             t2 == finalize_section(t1, w.encoder_pos)
         IN [t2 EXCEPT !.section_start = Some(w.encoder_pos), !.section_widths = <<>>]

update_sections(tm, w) ==
    IF IsNone(corridor_width(w))
    THEN tm
    ELSE [tm EXCEPT !.section_widths = Append(@, Val(corridor_width(w)))]

is_new_pillar(records, encoder, color) ==
    \A i \in 1..Len(records) :
        ~(records[i].color = color /\ Abs(records[i].encoder_pos - encoder) < pillar_tolerance)

\* a pass over the sighted pillars that tests each against the records held
\* before the pass
RecordPillars_snapshot(records, ps, encoder) ==
    LET Fresh(p) == is_new_pillar(records, encoder, p.color)
        fresh == SelectSeq(ps, Fresh)
    IN records \o [i \in 1..Len(fresh) |->
                     [encoder_pos |-> encoder, color |-> fresh[i].color,
                      side |-> IF fresh[i].angle > 0 THEN "right" ELSE "left",
                      angle |-> fresh[i].angle]]

RECURSIVE RecordPillars(_, _, _)
RecordPillars(records, ps, encoder) ==
    IF ps = <<>>
    THEN records
    ELSE LET p == Head(ps)
             next == IF is_new_pillar(records, encoder, p.color)
                     THEN Append(records,
                                 [encoder_pos |-> encoder, color |-> p.color,
                                  side |-> IF p.angle > 0 THEN "right" ELSE "left",
                                  angle |-> p.angle])
                     ELSE records
         IN RecordPillars(next, Tail(ps), encoder)

update_pillars(tm, w) ==
    [tm EXCEPT !.pillars = RecordPillars(@, w.pillars, w.encoder_pos)]

update_parking(tm, w) ==
    IF ~IsNone(w.parking_marker) /\ IsNone(tm.parking_zone)
    THEN [tm EXCEPT !.parking_zone = Some(<<w.encoder_pos - 100, w.encoder_pos + 300>>)]
    ELSE tm

\* a lap measured from the first corner instead of the first update
finalize_lap_from_corner(tm, encoder) ==
    IF IsNone(tm.lap_start)
    THEN tm
    ELSE [tm EXCEPT !.lap_length = Some(encoder - tm.corners[1].encoder_pos),
                    !.first_lap = FALSE]

finalize_lap(tm, encoder) ==
    IF IsNone(tm.lap_start)
    THEN tm
    ELSE [tm EXCEPT !.lap_length = Some(encoder - Val(tm.lap_start)), !.first_lap = FALSE]

\* a guard that never stops the learning
MapIsFrozen_never(tm) == FALSE

\* the guard at the top of TrackMap.update
MapIsFrozen(tm) == ~tm.first_lap

TrackMap_update(tm, w) ==
    IF MapIsFrozen(tm)
    THEN tm
    ELSE LET t0 == IF IsNone(tm.lap_start)
                   THEN [tm EXCEPT !.lap_start = Some(w.encoder_pos),
                                   !.section_start = Some(w.encoder_pos)]
                   ELSE tm
             t1 == IF IsNone(t0.direction) /\ ~IsNone(w.corner_ahead)
                   THEN [t0 EXCEPT !.direction =
                            Some(IF Val(w.corner_ahead) = "RIGHT" THEN "CW" ELSE "CCW")]
                   ELSE t0
             t2 == update_corners(t1, w)
             t3 == update_sections(t2, w)
             t4 == update_pillars(t3, w)
             t5 == update_parking(t4, w)
         IN IF Len(t5.corners) >= 4 /\ IsNone(t5.lap_length)
            THEN finalize_lap(t5, w.encoder_pos)
            ELSE t5

(***************************************************************************)
(* TrackMap queries.  A call either returns a value or raises; encoder %   *)
(* lap_length raises ZeroDivisionError when lap_length is 0                *)
(***************************************************************************)
Return(v) == [raised |-> FALSE, value |-> v]

Raise == [raised |-> TRUE, value |-> "ZeroDivisionError"]

\* Python's a % b for b # 0: the result has the sign of b
PyMod(a, b) == IF b > 0 THEN a % b ELSE -((-a) % (-b))

\* default lookahead of get_expected_pillars
lookahead == 500

\* default distance of should_prepare_parking
prepare_distance == 500

\* lap from which should_prepare_parking answers
parking_lap == 3

get_next_corner(tm, encoder) ==
    IF tm.corners = <<>> THEN Return(None)
    ELSE IF IsNone(tm.lap_length)
    THEN LET ahead == {i \in 1..Len(tm.corners) : tm.corners[i].encoder_pos > encoder}
         IN IF ahead = {} THEN Return(None)
            ELSE LET i == CHOOSE k \in ahead : \A j \in ahead : k <= j
                 IN Return(Some(<<tm.corners[i].encoder_pos - encoder, tm.corners[i].direction>>))
    ELSE IF Val(tm.lap_length) = 0 THEN Raise
    ELSE LET len == Val(tm.lap_length)
             normalized == PyMod(encoder, len)
             ahead == {i \in 1..Len(tm.corners) :
                          PyMod(tm.corners[i].encoder_pos, len) > normalized}
         IN IF ahead # {}
            THEN LET i == CHOOSE k \in ahead : \A j \in ahead : k <= j
                 IN Return(Some(<<PyMod(tm.corners[i].encoder_pos, len) - normalized,
                                  tm.corners[i].direction>>))
            ELSE Return(Some(<<(len - normalized) + PyMod(tm.corners[1].encoder_pos, len),
                               tm.corners[1].direction>>))

\* the distance get_expected_pillars computes for one record on later laps
PillarDistance(p, normalized, len) ==
    LET p_norm == PyMod(p.encoder_pos, len)
    IN IF p_norm >= normalized THEN p_norm - normalized ELSE (len - normalized) + p_norm

get_expected_pillars(tm, encoder) ==
    IF IsNone(tm.lap_length)
    THEN LET InReach(p) == 0 <= p.encoder_pos - encoder /\ p.encoder_pos - encoder <= lookahead
         IN Return(SelectSeq(tm.pillars, InReach))
    ELSE IF Val(tm.lap_length) = 0 THEN Raise
    ELSE LET len == Val(tm.lap_length)
             normalized == PyMod(encoder, len)
             InReach(p) == /\ 0 <= PillarDistance(p, normalized, len)
                           /\ PillarDistance(p, normalized, len) <= lookahead
         IN Return(SelectSeq(tm.pillars, InReach))

get_section_width(tm, encoder) ==
    IF IsNone(tm.lap_length)
    THEN LET at == {i \in 1..Len(tm.sections) :
                       /\ tm.sections[i].start_encoder <= encoder
                       /\ encoder <= tm.sections[i].end_encoder}
         IN IF at = {} THEN Return(None)
            ELSE Return(Some(tm.sections[CHOOSE k \in at : \A j \in at : k <= j].width))
    ELSE IF Val(tm.lap_length) = 0 THEN Raise
    ELSE LET len == Val(tm.lap_length)
             normalized == PyMod(encoder, len)
             at == {i \in 1..Len(tm.sections) :
                       /\ PyMod(tm.sections[i].start_encoder, len) <= normalized
                       /\ normalized <= PyMod(tm.sections[i].end_encoder, len)}
         IN IF at = {} THEN Return(None)
            ELSE Return(Some(tm.sections[CHOOSE k \in at : \A j \in at : k <= j].width))

get_distance_to_parking(tm, encoder) ==
    IF IsNone(tm.parking_zone) THEN Return(None)
    ELSE LET zone_start == Val(tm.parking_zone)[1]
         IN IF IsNone(tm.lap_length)
            THEN Return(IF zone_start - encoder > 0 THEN Some(zone_start - encoder) ELSE None)
            ELSE IF Val(tm.lap_length) = 0 THEN Raise
            ELSE LET len == Val(tm.lap_length)
                     normalized == PyMod(encoder, len)
                     start_norm == PyMod(zone_start, len)
                 IN IF start_norm >= normalized
                    THEN Return(Some(start_norm - normalized))
                    ELSE Return(Some((len - normalized) + start_norm))

should_prepare_parking(tm, encoder, lap_count) ==
    IF lap_count < parking_lap THEN Return(FALSE)
    ELSE LET dist == get_distance_to_parking(tm, encoder)
         IN IF dist.raised THEN Raise
            ELSE Return(~IsNone(dist.value) /\ Val(dist.value) <= prepare_distance)

(***************************************************************************)
(* StateMachine (decision/state_machine.py)                                *)
(***************************************************************************)
StateMachineInit ==
    [state |-> "IDLE", lap_count |-> 0, direction |-> None,
     avoiding_pillar |-> None, avoid_phase |-> 0, avoid_frames |-> 0]

\* StateMachine.start
start(sm) == [sm EXCEPT !.state = "WALL_FOLLOW", !.lap_count = 0, !.avoiding_pillar = None]

\* the closest pillar of any colour, or None
find_closest_pillar(sm, w) ==
    IF w.pillars = <<>> THEN None ELSE Some(MinByDistance(w.pillars))

\* _find_avoiding_pillar: the closest pillar of the latched colour, or None
find_avoiding_pillar(sm, w) ==
    LET matches == SelectSeq(w.pillars, LAMBDA p : Some(p.color) = sm.avoiding_pillar)
    IN IF matches = <<>> THEN None ELSE Some(MinByDistance(matches))

\* a hold one frame too short
SuppressTransitions_short(frames) == frames < min_avoid_frames - 1

\* the hysteresis test of _check_transitions, on the incremented frame count
SuppressTransitions(frames) == frames < min_avoid_frames

\* a timeout one frame too early
ClearedWhenNotVisible_early(frames) == frames >= min_avoid_frames * 2

\* the "gone from view" branch of _is_pillar_cleared
ClearedWhenNotVisible(frames) == frames > min_avoid_frames * 2

\* the same test with the two thresholds themselves counting as cleared
is_pillar_cleared_inclusive(sm, w) ==
    LET matches == SelectSeq(w.pillars, LAMBDA p : Some(p.color) = sm.avoiding_pillar)
    IN IF matches = <<>>
       THEN ClearedWhenNotVisible(sm.avoid_frames)
       ELSE \/ matches[1].distance >= clear_distance
            \/ Abs(matches[1].angle) >= clear_angle

\* _is_pillar_cleared: tests the FIRST pillar of the latched colour in list order
is_pillar_cleared(sm, w) ==
    LET matches == SelectSeq(w.pillars, LAMBDA p : Some(p.color) = sm.avoiding_pillar)
    IN IF matches = <<>>
       THEN ClearedWhenNotVisible(sm.avoid_frames)
       ELSE \/ matches[1].distance > clear_distance
            \/ Abs(matches[1].angle) > clear_angle

\* entering AVOID_PILLAR (from WALL_FOLLOW and from CORNER)
EnterAvoid(sm, w) ==
    [sm EXCEPT !.state = "AVOID_PILLAR",
               !.avoiding_pillar = Some(Val(blocking_pillar(w)).color),
               !.avoid_phase = 0,
               !.avoid_frames = 0]

\* lap bookkeeping that counts the lap but never ends the race
LeaveCorner_no_finish(sm, tm) ==
    LET s1 == [sm EXCEPT !.state = "WALL_FOLLOW"]
    IN IF corner_count(tm) > 0 /\ corner_count(tm) % 4 = 0
       THEN [s1 EXCEPT !.lap_count = corner_count(tm) \div 4]
       ELSE s1

\* the lap bookkeeping done when CORNER is left for WALL_FOLLOW
LeaveCorner(sm, tm) ==
    LET s1 == [sm EXCEPT !.state = "WALL_FOLLOW"]
    IN IF corner_count(tm) > 0 /\ corner_count(tm) % 4 = 0
       THEN LET s2 == [s1 EXCEPT !.lap_count = corner_count(tm) \div 4]
            IN IF s2.lap_count >= target_laps
               THEN [s2 EXCEPT !.state = "DONE"]
               ELSE s2
       ELSE s1

check_transitions(sm, w, tm) ==
    CASE sm.state = "WALL_FOLLOW" ->
            IF ~IsNone(blocking_pillar(w))
            THEN EnterAvoid(sm, w)
            ELSE IF is_corner_approaching(w)
            THEN [sm EXCEPT !.state = "CORNER"]
            ELSE IF sm.lap_count >= 3 /\ is_parking_visible(w)
            THEN [sm EXCEPT !.state = "PARKING"]
            ELSE sm
      [] sm.state = "AVOID_PILLAR" ->
            LET s1 == [sm EXCEPT !.avoid_frames = @ + 1]
            IN IF SuppressTransitions(s1.avoid_frames)
               THEN s1
               ELSE IF is_pillar_cleared(s1, w)
               THEN [s1 EXCEPT !.state = "WALL_FOLLOW", !.avoiding_pillar = None]
               ELSE s1
      [] sm.state = "CORNER" ->
            IF ~IsNone(blocking_pillar(w))
            THEN EnterAvoid(sm, w)
            ELSE IF ~is_corner_approaching(w)
            THEN LeaveCorner(sm, tm)
            ELSE sm
      [] OTHER -> sm  \* PARKING: self.parking is None in every caller

\* _update_avoid_phase
update_avoid_phase(sm, p) ==
    IF p.distance < 300
    THEN [sm EXCEPT !.avoid_phase = 1]
    ELSE IF sm.avoid_phase = 1 /\ p.distance > 400
    THEN [sm EXCEPT !.avoid_phase = 2]
    ELSE sm

\* StateMachine.stop
StateMachine_stop(sm) == [sm EXCEPT !.state = "DONE"]

\* no state returns early
EarlyReturnStates_none == {}

\* the states in which decide() returns before anything else
EarlyReturnStates == {"IDLE", "DONE"}

\* StateMachine.decide: the new object and the returned (speed, steering)
decide(sm, w, tm) ==
    IF sm.state \in EarlyReturnStates
    THEN [sm |-> sm, out |-> <<0, STEERING_CENTER>>]
    ELSE LET s0 == IF IsNone(sm.direction) /\ ~IsNone(tm.direction)
                   THEN [sm EXCEPT !.direction = tm.direction]
                   ELSE sm
             s1 == check_transitions(s0, w, tm)
         IN CASE s1.state = "WALL_FOLLOW" -> [sm |-> s1, out |-> wall_follow_compute(w)]
              [] s1.state = "AVOID_PILLAR" ->
                    LET pillar == find_avoiding_pillar(s1, w)
                        direction == IF s1.avoiding_pillar = Some("red") THEN -1 ELSE 1
                    IN IF IsNone(pillar)
                       THEN [sm |-> s1,
                             out |-> <<slow_speed,
                                       STEERING_CENTER + direction * max_steer_offset>>]
                       ELSE [sm |-> update_avoid_phase(s1, Val(pillar)),
                             out |-> avoidance_compute(Val(pillar))]
              [] s1.state = "CORNER" ->
                    [sm |-> s1,
                     out |-> corner_compute(IF IsNone(w.corner_ahead) THEN "RIGHT"
                                            ELSE Val(w.corner_ahead))]
              [] OTHER -> [sm |-> s1, out |-> <<0, STEERING_CENTER>>]

(***************************************************************************)
(* Clustering and sensor fusion (strategies/clustering.py,                 *)
(* perception/sensor_fusion.py)                                            *)
(***************************************************************************)
\* a DetectedObject as find_objects builds it: the kind follows from the width
DetectedObject(angle, distance, width) ==
    [angle |-> angle, distance |-> distance, width |-> width,
     obj_type |-> IF width < pillar_max_width THEN "pillar" ELSE "wall"]

ColorBlob(color, angle) == [color |-> color, angle |-> angle]

\* LIDAR angle (0..360, clockwise from forward) in the camera's reference
camera_angle(obj) == IF obj.angle > 180 THEN obj.angle - 360 ELSE obj.angle

\* the size filter of _match_pillars
SizeEligible(obj) == PILLAR_SIZE_MIN <= obj.width /\ obj.width <= PILLAR_SIZE_MAX

angle_diff(blob, obj) == Abs(blob.angle - camera_angle(obj))

\* the unused, size-eligible objects within the angle threshold of a blob
MatchCandidates(blob, objs, used) ==
    {i \in 1..Len(objs) :
        /\ i \notin used
        /\ SizeEligible(objs[i])
        /\ angle_diff(blob, objs[i]) < ANGLE_MATCH_THRESHOLD}

\* the inner loop of _match_pillars: smallest angle difference, first index on a tie
best_match(blob, objs, used) ==
    LET cands == MatchCandidates(blob, objs, used)
    IN IF cands = {} THEN None
       ELSE Some(CHOOSE i \in cands :
                    \A j \in cands :
                        \/ angle_diff(blob, objs[i]) < angle_diff(blob, objs[j])
                        \/ (angle_diff(blob, objs[i]) = angle_diff(blob, objs[j]) /\ i <= j))

\* an outer loop that never marks a matched cluster as used
RECURSIVE MatchBlobs_reuse(_, _, _, _)
MatchBlobs_reuse(bs, objs, used, acc) ==
    IF bs = <<>> THEN acc
    ELSE LET blob == Head(bs)
             m == best_match(blob, objs, used)
         IN IF IsNone(m) THEN MatchBlobs_reuse(Tail(bs), objs, used, acc)
            ELSE MatchBlobs_reuse(Tail(bs), objs, used,
                                  Append(acc, Pillar(blob.color, blob.angle,
                                                     objs[Val(m)].distance)))

\* the outer loop of _match_pillars, blobs taken in list order
RECURSIVE MatchBlobs(_, _, _, _)
MatchBlobs(bs, objs, used, acc) ==
    IF bs = <<>> THEN acc
    ELSE LET blob == Head(bs)
             m == best_match(blob, objs, used)
         IN IF IsNone(m) THEN MatchBlobs(Tail(bs), objs, used, acc)
            ELSE MatchBlobs(Tail(bs), objs, used \cup {Val(m)},
                            Append(acc, Pillar(blob.color, blob.angle,
                                               objs[Val(m)].distance)))

IsPillarBlob(b) == b.color \in {"red", "green"}

match_pillars(objs, bl) == MatchBlobs(SelectSeq(bl, IsPillarBlob), objs, {}, <<>>)

(***************************************************************************)
(* Lidar (sensors/lidar.py).  A dict is the set of its <<key, value>>      *)
(* pairs.                                                                  *)
(***************************************************************************)
lidar_min_distance == 60

lidar_min_quality == 10

lidar_max_distance == 3000

lidar_display_angle == 180

\* dict.get(key, default)
dict_get(d, key, default) ==
    IF \E e \in d : e[1] = key THEN (CHOOSE e \in d : e[1] = key)[2] ELSE default

\* Lidar._filter_scan with the quality dict it reads from self._scan_quality
filter_scan(scan, quality) ==
    {e \in scan :
        /\ ~(e[2] > lidar_max_distance)
        /\ ~(lidar_min_quality > 0 /\ dict_get(quality, e[1], 0) < lidar_min_quality)
        /\ LET signed == IF e[1] <= 180 THEN e[1] ELSE e[1] - 360
           IN -lidar_display_angle <= signed /\ signed <= lidar_display_angle}

\* the readings of one rotation that _scan_loop accumulates
accepted_readings(readings) ==
    {r \in readings : ~(r[2] < lidar_min_distance) /\ ~(r[3] < lidar_min_quality)}

\* _scan_loop before its first reading: the two accumulation dicts, as functions
\* from the angles seen to the lists of their values; angle and stride are the
\* scanner's position, rotations counts the readings at angle 0 delivered,
\* hAccepted is the set of angles accepted since the last reading at angle 0
\* and hPublished tells whether the loop published since then
ScanLoopInit ==
    [current_scan |-> <<>>, current_quality |-> <<>>, angle |-> 0, stride |-> 1,
     rotations |-> 0, hAccepted |-> {}, hPublished |-> FALSE]

\* Lidar.__init__: empty scan and quality; the caller of get_scan is outside it;
\* published is the history of the (scan, quality) pairs held at a lock release
LidarInit ==
    [scan |-> {}, scan_quality |-> {}, pc |-> "idle", copy |-> {}, returned |-> None,
     published |-> {[scan |-> {}, quality |-> {}]}, publications |-> 0,
     loop |-> ScanLoopInit]

(***************************************************************************)
(* Motor and its serial link (sensors/motor.py)                            *)
(***************************************************************************)
MotorInit == [speed |-> 0, steering |-> STEERING_CENTER, connected |-> FALSE, encoder |-> 0]

\* the link: open or not, the last C: frame written, whether E was written,
\* and a bit that flips at every C: frame
SerialInit == [open |-> FALSE, command |-> None, estop |-> FALSE, tx |-> 0]

\* Motor._send_command
send_command(m, s) ==
    IF ~s.open THEN s
    ELSE [s EXCEPT !.command = Some(<<m.speed, SERVO_RANGE - m.steering>>), !.tx = 1 - @]

\* the same assignments without the two clamps
set_target_unclamped(m, speed, steering) ==
    [m EXCEPT !.speed = speed, !.steering = steering]

\* the assignments of Motor.drive, also made directly by the web auto loop
\* and by api_drive
set_target(m, speed, steering) ==
    [m EXCEPT !.speed = Clamp(speed, -MOTOR_SPEED_LIMIT, MOTOR_SPEED_LIMIT),
              !.steering = Clamp(steering, 0, SERVO_RANGE)]

\* Motor.drive
drive(m, s, speed, steering) ==
    LET m2 == set_target(m, speed, steering)
    IN [motor |-> m2, serial |-> send_command(m2, s)]

\* Motor.stop: speed 0, steering kept
stop(m, s) ==
    LET m2 == [m EXCEPT !.speed = 0]
    IN [motor |-> m2, serial |-> send_command(m2, s)]

\* Motor.emergency_stop
emergency_stop(m, s) ==
    IF s.open THEN [motor |-> [m EXCEPT !.speed = 0], serial |-> [s EXCEPT !.estop = TRUE]]
    ELSE [motor |-> m, serial |-> s]

\* Motor.connect, the port opening; reset_encoder zeroes the encoder
connect(m, s) ==
    [motor |-> [m EXCEPT !.connected = TRUE, !.encoder = 0],
     serial |-> [s EXCEPT !.open = TRUE]]

\* a received line: its prefix and its comma-separated fields; the first field
\* is None when int() cannot parse it
StatusLine(kind, parts) == [kind |-> kind, parts |-> parts]

\* Motor.update that also takes the reported speed and steering as the target
motor_update_adopting(m, line) ==
    IF line.kind = "S" /\ Len(line.parts) >= 3 /\ ~IsNone(line.parts[1])
    THEN [motor |-> [m EXCEPT !.encoder = Val(line.parts[1]),
                              !.speed = line.parts[2], !.steering = line.parts[3]],
          flushed |-> FALSE]
    ELSE [motor |-> m, flushed |-> FALSE]

\* Motor.update on one received line: a status line with three fields sets the
\* encoder, an error line is logged, a field int() rejects flushes the input
motor_update(m, line) ==
    IF line.kind = "S" /\ Len(line.parts) >= 3
    THEN IF IsNone(line.parts[1])
         THEN [motor |-> m, flushed |-> TRUE]
         ELSE [motor |-> [m EXCEPT !.encoder = Val(line.parts[1])], flushed |-> FALSE]
    ELSE [motor |-> m, flushed |-> FALSE]

\* the drain loop of the keepalive thread: update() while input is waiting
RECURSIVE drain(_, _)
drain(m, lines) ==
    IF lines = <<>> THEN m
    ELSE LET u == motor_update(m, Head(lines))
         IN IF u.flushed THEN u.motor ELSE drain(u.motor, Tail(lines))

\* Motor.disconnect
disconnect(m, s) ==
    LET e == emergency_stop(m, s)
    IN [motor |-> [e.motor EXCEPT !.connected = FALSE],
        serial |-> [e.serial EXCEPT !.open = FALSE]]

(***************************************************************************)
(* Run loops (control/controller.py, main.py, web/server.py)               *)
(***************************************************************************)
\* the two speeds of Parameters that decide() copies into the strategies
DefaultParams == [auto_normal_speed |-> normal_speed, auto_slow_speed |-> slow_speed]

\* parameter values a params file or /api/params may hold: the defaults, and
\* speeds beyond the motor's range in either direction
ParamSets == {DefaultParams, [auto_normal_speed |-> 150, auto_slow_speed |-> -120]}

\* the output of decide() once the strategies' speeds are synced from params:
\* wall following drives at auto_normal_speed, avoidance and corners at
\* auto_slow_speed; Idle and Done return before the sync
tuned_output(o, p) ==
    <<IF o[1] = normal_speed THEN p.auto_normal_speed
      ELSE IF o[1] = slow_speed THEN p.auto_slow_speed
      ELSE o[1],
      o[2]>>

ControllerInit ==
    [mode |-> "controller", pc |-> "idle", running |-> FALSE, stalled |-> FALSE,
     keepalive_running |-> FALSE, keepalive_alive |-> FALSE, params |-> DefaultParams]

\* the two web-mode threads before anything runs: no request in progress on
\* the event loop, the keepalive thread between two passes; ka_steering and
\* ka_command are the locals hw_steering and command of _send_command;
\* late_frame and closed_write record what the keepalive did to the link
ThreadsInit ==
    [ev |-> "idle", pending |-> None, ka |-> "sleep", ka_steering |-> None,
     ka_command |-> None, late_frame |-> FALSE, closed_write |-> FALSE]

\* Controller._cleanup, the motor part
cleanup(m, s) ==
    IF m.connected
    THEN LET st == stop(m, s) IN disconnect(st.motor, st.serial)
    ELSE [motor |-> m, serial |-> s]

\* the finally block of DebugSensors._auto_loop, also the end of stop_auto
auto_loop_finally(m, s) == drive(m, s, 0, STEERING_CENTER)

(***************************************************************************)
(* Inputs of the state-machine specification                               *)
(***************************************************************************)
NoWalls == WallInfo(None, None, None)

EmptyWorld == WorldState(0, NoWalls, <<>>, None, None)

Colors == {"red", "green"}

\* angles and distances on both sides of the blocking, clear_angle,
\* clear_distance and avoid-phase thresholds
PillarPlaces == {<<0, 250>>, <<0, 600>>, <<0, 601>>, <<65, 600>>, <<-66, 600>>, <<-66, 250>>}

PillarVals == {Pillar(c, pl[1], pl[2]) : c \in Colors, pl \in PillarPlaces}

PillarLists ==
    {<<>>}
    \cup {<<p>> : p \in PillarVals}
    \cup {<<Pillar("red", 0, 601), Pillar("red", 0, 250)>>,
          <<Pillar("red", 65, 600), Pillar("green", 0, 250)>>,
          <<Pillar("green", -66, 250), Pillar("red", 0, 600)>>}

Corners == {None, Some("LEFT"), Some("RIGHT")}

Worlds ==
    {WorldState(0, NoWalls, ps, None, None) : ps \in PillarLists}
    \cup {WorldState(0, NoWalls, <<>>, c, pm) : c \in Corners, pm \in {None, Some(1000)}}
    \cup {WorldState(0, NoWalls, <<Pillar(c, 0, 250)>>, Some("RIGHT"), Some(1000)) : c \in Colors}
    \cup {WorldState(0, WallInfo(Some(300), Some(500), Some(2000)), <<>>, None, None)}

\* cap on the frame counter of AVOID_PILLAR, which the code never bounds
MaxAvoidFrames == 53

\* corners the track map learns beside the state machine in Spec
MaxMapCorners == 1

\* the track map learns one corner per call, corner_tolerance apart
MapWorlds(tm) ==
    {WorldState(corner_tolerance * corner_count(tm), NoWalls, <<>>, Some(d), None) :
        d \in {"RIGHT"}}

(***************************************************************************)
(* Specification Spec: one StateMachine driven through start() and         *)
(* decide() with arbitrary WorldStates, beside a TrackMap learning corners *)
(***************************************************************************)
\* everything but the state machine and the run loop, as constructed
InitRest ==
    /\ track_map = TrackMapInit
    /\ world = EmptyWorld
    /\ out = <<0, STEERING_CENTER>>
    /\ hAvoidCalls = 0
    /\ hLatchedSeen = FALSE
    /\ hSightings = 0
    /\ hLeft = 0
    /\ hInSighting = 0
    /\ objects = <<>>
    /\ blobs = <<>>
    /\ lidar = LidarInit
    /\ motor = MotorInit
    /\ serial = SerialInit
    /\ hFusionRaised = FALSE
    /\ threads = ThreadsInit

InitBase == InitRest /\ state_machine = StateMachineInit

Init == InitBase /\ controller = ControllerInit

\* Controller.run / DebugSensors.start_auto call start() once, on a fresh machine
Start ==
    /\ state_machine.state = "IDLE"
    /\ state_machine' = start(state_machine)
    /\ UNCHANGED <<track_map, world, out, histVars, fusionVars, raceVars, loopVars>>

\* history of the current (or most recent) AVOID_PILLAR episode, after a decide() call
AvoidHistory(old, new, w) ==
    /\ hAvoidCalls' = IF new.state = "AVOID_PILLAR"
                      THEN (IF old.state = "AVOID_PILLAR" THEN hAvoidCalls + 1 ELSE 1)
                      ELSE hAvoidCalls
    /\ hLatchedSeen' = IF old.state = "AVOID_PILLAR"
                       THEN hLatchedSeen \/ ~IsNone(find_avoiding_pillar(old, w))
                       ELSE IF new.state = "AVOID_PILLAR" THEN FALSE ELSE hLatchedSeen

Decide(w) ==
    /\ state_machine.state = "AVOID_PILLAR" => state_machine.avoid_frames < MaxAvoidFrames
    /\ LET r == decide(state_machine, w, track_map)
       IN /\ state_machine' = r.sm
          /\ out' = r.out
          /\ AvoidHistory(state_machine, r.sm, w)
    /\ world' = w
    /\ UNCHANGED <<track_map, hSightings, hLeft, hInSighting, fusionVars, raceVars, loopVars>>

DecideStep == \E w \in Worlds : Decide(w)

MapStep ==
    /\ corner_count(track_map) < MaxMapCorners
    /\ \E w \in MapWorlds(track_map) : track_map' = TrackMap_update(track_map, w)
    /\ UNCHANGED <<state_machine, world, out, histVars, fusionVars, raceVars, loopVars>>

Next == Start \/ DecideStep \/ MapStep

Spec == Init /\ [][Next]_vars

(***************************************************************************)
(* Specification StopSpec: Spec with StateMachine.stop() callable at any   *)
(* time, which is the way into DONE that needs no laps                     *)
(***************************************************************************)
\* stop() is offered only while the avoidance frame counter is below this
MaxStopFrames == 2

StopRace ==
    /\ state_machine.state # "DONE"
    /\ state_machine.avoid_frames < MaxStopFrames
    /\ state_machine' = StateMachine_stop(state_machine)
    /\ UNCHANGED <<track_map, world, out, histVars, fusionVars, raceVars, loopVars>>

StopNext == Start \/ StopRace \/ DecideStep \/ MapStep

StopSpec == Init /\ [][StopNext]_vars

(***************************************************************************)
(* Specification StrategySpec: the wall-follow and avoidance strategies    *)
(* applied to wall distances and pillars on both sides of every threshold  *)
(***************************************************************************)
\* a wall distance, or None for a wall that is not seen
WallDistances == {None, Some(100), Some(149), Some(151), Some(300), Some(400), Some(500)}

StrategyAngles == {-90, -45, -12, 0, 12, 45, 90}

StrategyDistances == {0, 250, 500, 600, 799, 800, 3000}

\* ProportionalWallFollow.compute(world)
WallFollowCompute(l, r) ==
    /\ world' = WorldState(0, WallInfo(l, r, None), <<>>, None, None)
    /\ out' = wall_follow_compute(world')
    /\ UNCHANGED <<state_machine, track_map, histVars, fusionVars, raceVars, loopVars>>

WallFollowStep == \E l \in WallDistances, r \in WallDistances : WallFollowCompute(l, r)

\* ProportionalAvoidance.compute(pillar, world)
AvoidCompute(p) ==
    /\ world' = WorldState(0, NoWalls, <<p>>, None, None)
    /\ out' = avoidance_compute(p)
    /\ UNCHANGED <<state_machine, track_map, histVars, fusionVars, raceVars, loopVars>>

AvoidStep ==
    \E c \in Colors, a \in StrategyAngles, d \in StrategyDistances : AvoidCompute(Pillar(c, a, d))

StrategyNext == WallFollowStep \/ AvoidStep

StrategySpec == Init /\ [][StrategyNext]_vars

(***************************************************************************)
(* Specification ParkSpec: one StateMachine driven through start() and     *)
(* decide(); the track_map argument of each call is a map of any size      *)
(***************************************************************************)
\* corner counts of the maps handed to decide(): none, one to three laps' worth,
\* and counts that are not a multiple of four
ParkCornerCounts == {0, 4, 8, 11, 12, 16}

\* a map holding k corners
MapWithCorners(k) ==
    [TrackMapInit EXCEPT
        !.corners = [i \in 1..k |-> [encoder_pos |-> i * corner_tolerance,
                                     direction |-> "RIGHT"]],
        !.direction = IF k = 0 THEN None ELSE Some("CW")]

ParkWorlds ==
    {WorldState(0, NoWalls, <<>>, c, pm) : c \in {None, Some("RIGHT")},
                                           pm \in {None, Some(1000)}}

DecideWithMap(w, tm) ==
    /\ LET r == decide(state_machine, w, tm)
       IN /\ state_machine' = r.sm
          /\ out' = r.out
          /\ AvoidHistory(state_machine, r.sm, w)
    /\ world' = w
    /\ track_map' = tm
    /\ UNCHANGED <<hSightings, hLeft, hInSighting, fusionVars, raceVars, loopVars>>

DecideWithMapStep ==
    \E w \in ParkWorlds : \E k \in ParkCornerCounts : DecideWithMap(w, MapWithCorners(k))

ParkNext == Start \/ DecideWithMapStep

ParkSpec == Init /\ [][ParkNext]_vars

(***************************************************************************)
(* Specification TransitionSpec: decide() called on a started state        *)
(* machine that is in WALL_FOLLOW or CORNER, whose lap_count attribute     *)
(* holds any value up to target_laps + 1                                   *)
(***************************************************************************)
TransitionInit ==
    /\ InitRest
    /\ controller = ControllerInit
    /\ state_machine \in {[start(StateMachineInit) EXCEPT !.lap_count = n] :
                             n \in 0..(target_laps + 1)}

DecideFromCruise(w) ==
    /\ state_machine.state \in {"WALL_FOLLOW", "CORNER"}
    /\ Decide(w)

DecideFromCruiseStep == \E w \in Worlds : DecideFromCruise(w)

TransitionNext == DecideFromCruiseStep

TransitionSpec == TransitionInit /\ [][TransitionNext]_vars

(***************************************************************************)
(* Specification TrackSpec: one TrackMap driven through update() with      *)
(* arbitrary WorldStates; the encoder may stand still, advance or decrease *)
(***************************************************************************)
TrackEncoders == {0, 100, 199, 200, 300}

Walls800 == WallInfo(Some(400), Some(400), None)

\* cap on the width samples buffered for the open section
MaxWidthSamples == 1

\* WorldStates offered while the map is learning
LearnWorlds ==
    {WorldState(e, NoWalls, <<>>, Some("RIGHT"), None) : e \in TrackEncoders}
    \cup {WorldState(100, NoWalls, <<>>, Some("LEFT"), None),
          WorldState(200, Walls800, <<>>, None, None),
          WorldState(100, Walls800, <<>>, Some("RIGHT"), None)}

\* WorldStates offered once the first lap is complete: each carries
\* something update() would record on a learning map
FrozenWorlds ==
    {WorldState(500, Walls800, <<Pillar("red", 10, 500), Pillar("green", -10, 400)>>,
                Some("LEFT"), Some(1000)),
     WorldState(500, NoWalls, <<>>, Some("RIGHT"), None),
     WorldState(300, NoWalls, <<Pillar("green", 20, 300)>>, None, None),
     WorldState(0, NoWalls, <<>>, None, Some(1000)),
     WorldState(200, Walls800, <<>>, None, None)}

TrackWorlds(tm) == IF tm.first_lap THEN LearnWorlds ELSE FrozenWorlds

Update(w) ==
    /\ (track_map.first_lap /\ ~IsNone(corridor_width(w)))
          => Len(track_map.section_widths) < MaxWidthSamples
    /\ track_map' = TrackMap_update(track_map, w)
    /\ world' = w
    /\ UNCHANGED <<state_machine, out, histVars, fusionVars, raceVars, loopVars>>

UpdateStep == \E w \in TrackWorlds(track_map) : Update(w)

TrackNext == UpdateStep

TrackSpec == Init /\ [][TrackNext]_vars

(***************************************************************************)
(* Specification PillarSpec: one TrackMap on its first lap, driven through *)
(* update() with WorldStates that carry pillars and no corner              *)
(***************************************************************************)
PillarEncoders == {0, 49, 50}

SightedPillars ==
    {<<>>, <<Pillar("red", 10, 500)>>, <<Pillar("green", -10, 400)>>,
     <<Pillar("red", 10, 500), Pillar("red", -20, 700)>>,
     <<Pillar("red", 10, 500), Pillar("green", -10, 400)>>}

PillarWorlds ==
    {WorldState(e, NoWalls, ps, None, None) : e \in PillarEncoders, ps \in SightedPillars}

PillarUpdate(w) ==
    /\ track_map' = TrackMap_update(track_map, w)
    /\ world' = w
    /\ UNCHANGED <<state_machine, out, histVars, fusionVars, raceVars, loopVars>>

PillarUpdateStep == \E w \in PillarWorlds : PillarUpdate(w)

PillarNext == PillarUpdateStep

PillarSpec == Init /\ [][PillarNext]_vars

(***************************************************************************)
(* Specification LapSpec: the tick pipeline of Controller._control_loop    *)
(* and DebugSensors._auto_loop (TrackMap.update, then StateMachine.decide, *)
(* on the same WorldState) over a run with no pillars, a strictly          *)
(* increasing encoder and separate corner sightings                        *)
(***************************************************************************)
\* encoder advance of a tick that begins a corner sighting (> corner_tolerance)
SightingAdvance == 101

\* encoder advance of every other tick
TickAdvance == 30

\* a sighting lasts at most this many consecutive ticks
MaxSightingTicks == 2

\* the run ends once the encoder has passed this value
MaxLapEncoder == 2000

\* corner directions a sighting may show: one track has one turning direction
LapCornerDirs(tm) ==
    IF IsNone(tm.direction) THEN {"LEFT", "RIGHT"}
    ELSE IF Val(tm.direction) = "CW" THEN {"RIGHT"} ELSE {"LEFT"}

\* a sighting begins with a large advance, may last one more tick, and is
\* followed by a tick with no corner ahead
LapWorlds ==
    IF hInSighting = 0
    THEN {WorldState(world.encoder_pos + SightingAdvance, NoWalls, <<>>, Some(d), None) :
             d \in LapCornerDirs(track_map)}
    ELSE {WorldState(world.encoder_pos + TickAdvance, NoWalls, <<>>, None, None)}
         \cup (IF hInSighting < MaxSightingTicks
               THEN {WorldState(world.encoder_pos + TickAdvance, NoWalls, <<>>,
                                world.corner_ahead, None)}
               ELSE {})

\* steps 3 and 4 of a tick: TrackMap.update, then StateMachine.decide
PipelineWith(w, p) ==
    LET tm == TrackMap_update(track_map, w)
        r == decide(state_machine, w, tm)
    IN /\ track_map' = tm
       /\ state_machine' = r.sm
       /\ out' = tuned_output(r.out, p)
       /\ world' = w
       /\ AvoidHistory(state_machine, r.sm, w)

Pipeline(w) == PipelineWith(w, DefaultParams)

Tick(w) ==
    /\ Pipeline(w)
    /\ hSightings' = IF ~IsNone(w.corner_ahead) /\ hInSighting = 0
                     THEN hSightings + 1 ELSE hSightings
    /\ hLeft' = IF IsNone(w.corner_ahead) /\ hInSighting > 0 THEN hLeft + 1 ELSE hLeft
    /\ hInSighting' = IF IsNone(w.corner_ahead) THEN 0 ELSE hInSighting + 1
    /\ UNCHANGED <<fusionVars, raceVars, loopVars>>

\* the loop runs after start() and exits when the state is DONE
LapTick ==
    /\ state_machine.state \notin {"IDLE", "DONE"}
    /\ world.encoder_pos < MaxLapEncoder
    /\ \E w \in LapWorlds : Tick(w)

LapNext == Start \/ LapTick

LapSpec == Init /\ [][LapNext]_vars

(***************************************************************************)
(* Specification SightingSpec: the same tick pipeline over a run in which  *)
(* a corner stays in view for any number of ticks while the encoder        *)
(* advances                                                                *)
(***************************************************************************)
\* the run ends once the encoder has passed this value
MaxSightingEncoder == 250

\* every tick advances the encoder by a small or a large step, with or
\* without a corner ahead
SightingWorlds ==
    {WorldState(world.encoder_pos + a, NoWalls, <<>>, c, None) :
        a \in {TickAdvance, SightingAdvance},
        c \in {None} \cup {Some(d) : d \in LapCornerDirs(track_map)}}

SightingTick ==
    /\ state_machine.state \notin {"IDLE", "DONE"}
    /\ world.encoder_pos < MaxSightingEncoder
    /\ \E w \in SightingWorlds : Tick(w)

SightingNext == Start \/ SightingTick

SightingSpec == Init /\ [][SightingNext]_vars

(***************************************************************************)
(* Specification FusionSpec: SensorFusion._match_pillars applied to the    *)
(* cluster list and the blob list of one fusion update                     *)
(***************************************************************************)
\* cluster angles in the LIDAR frame: 10 right of forward and 10 left
ObjectAngles == {10, 350}

\* cluster widths around pillar_size_min, pillar_max_width and pillar_size_max
ObjectWidths == {29, 30, 120, 1000, 1001}

\* far clusters of every angle and width, and one near pillar-sized cluster
ObjectVals ==
    {DetectedObject(a, 900, wd) : a \in ObjectAngles, wd \in ObjectWidths}
    \cup {DetectedObject(350, 400, 100)}

ObjectLists ==
    {<<>>} \cup {<<o>> : o \in ObjectVals}
    \cup {<<o, DetectedObject(350, 400, 100)>> : o \in ObjectVals}

\* blob angles in the camera frame
BlobAngles == {-12, 8, 50}

RedGreenBlobs == {ColorBlob(c, a) : c \in Colors, a \in BlobAngles}

\* Camera._detect_blobs appends red blobs, then green, then magenta
ColorRank(c) == CASE c = "red" -> 1 [] c = "green" -> 2 [] OTHER -> 3

BlobLists ==
    {<<>>, <<ColorBlob("magenta", 8)>>}
    \cup {<<b>> : b \in RedGreenBlobs}
    \cup {pr \in {<<b1, b2>> : b1 \in RedGreenBlobs, b2 \in RedGreenBlobs} :
              ColorRank(pr[1].color) <= ColorRank(pr[2].color)}
    \cup {<<b, ColorBlob("magenta", 8)>> : b \in RedGreenBlobs}

\* the pillar part of SensorFusion.update
Fuse(objs, bl) ==
    /\ objects' = objs
    /\ blobs' = bl
    /\ world' = [world EXCEPT !.pillars = match_pillars(objs, bl)]
    /\ UNCHANGED <<state_machine, track_map, out, histVars, lidar, loopVars, raceVars>>

FuseStep == \E objs \in ObjectLists, bl \in BlobLists : Fuse(objs, bl)

FusionNext == FuseStep

FusionSpec == Init /\ [][FusionNext]_vars

(***************************************************************************)
(* Specification LidarSpec: the acquisition thread publishing rotations    *)
(* while another thread calls get_scan(); each action is one stretch of    *)
(* code that runs under the lock or between two lock regions               *)
(***************************************************************************)
\* cap on the rotations published
MaxPublications == 2

\* raw <<angle, distance, quality>> readings at angle 0 and at angle 90
Readings0 == {<<0, 500, 20>>, <<0, 700, 20>>, <<0, 4000, 20>>}

Readings90 == {<<90, 500, 20>>, <<90, 500, 5>>, <<90, 30, 20>>}

\* one rotation: a reading at angle 0 closes it, angle 90 may be missing
Rotations == {{r} : r \in Readings0} \cup {{r, q} : r \in Readings0, q \in Readings90}

\* _scan_loop over one full rotation, batch mode: one reading per angle, so the
\* averages are the readings; both dicts are replaced under the lock
PublishScan(readings) ==
    /\ lidar.publications < MaxPublications
    /\ LET acc == accepted_readings(readings)
           averaged == {<<r[1], r[2]>> : r \in acc}
           avg_quality == {<<r[1], r[3]>> : r \in acc}
       IN /\ \E r \in acc : r[1] = 0
          /\ lidar' = [lidar EXCEPT !.scan = averaged,
                                    !.scan_quality = avg_quality,
                                    !.published = @ \cup {[scan |-> averaged,
                                                           quality |-> avg_quality]},
                                    !.publications = @ + 1]
    /\ UNCHANGED <<coreVars, histVars, objects, blobs, loopVars, raceVars>>

PublishStep == \E readings \in Rotations : PublishScan(readings)

\* get_scan, the locked region: scan = self._scan.copy()
GetScanCopy ==
    /\ lidar.pc = "idle"
    /\ lidar' = [lidar EXCEPT !.pc = "copied", !.copy = lidar.scan]
    /\ UNCHANGED <<coreVars, histVars, objects, blobs, loopVars, raceVars>>

\* get_scan after the lock is released: _filter_scan reads self._scan_quality
GetScanFilter ==
    /\ lidar.pc = "copied"
    /\ lidar' = [lidar EXCEPT !.pc = "idle",
                              !.returned = Some(filter_scan(lidar.copy, lidar.scan_quality))]
    /\ UNCHANGED <<coreVars, histVars, objects, blobs, loopVars, raceVars>>

LidarNext == PublishStep \/ GetScanCopy \/ GetScanFilter

LidarSpec == Init /\ [][LidarNext]_vars

(***************************************************************************)
(* Specification ScanSpec: _scan_loop reading by reading, in batch mode    *)
(* (lidar_instant is False by default)                                     *)
(***************************************************************************)
\* cap on the readings at angle 0 delivered
MaxRotations == 2

\* the full-rotation threshold of len(current_scan) > 180
FullRotationAngles == 180

\* degrees between two readings of a rotation: every degree, or every second
Strides == {1, 2}

\* the angles whose reading may fail a filter
NoisyAngles == {0, 90}

\* the <<distance, quality>> of a reading: good, nearer than lidar_min_distance,
\* below lidar_min_quality, no return at all
ReadingsAt(angle) ==
    IF angle \in NoisyAngles
    THEN {<<500, 20>>, <<30, 20>>, <<500, 5>>, <<0, 0>>}
    ELSE {<<500, 20>>}

\* current_scan[angle].append(value), with the list created on first use
dict_append(d, angle, value) ==
    [a \in DOMAIN d \cup {angle} |->
        IF a = angle
        THEN (IF angle \in DOMAIN d THEN Append(d[angle], value) ELSE <<value>>)
        ELSE d[a]]

\* {a: sum(d) / len(d) for a, d in current_scan.items()}; the values used make
\* every division exact
averaged_dict(d) == {<<a, SumSeq(d[a]) \div Len(d[a])>> : a \in DOMAIN d}

\* one pass of the for loop of _scan_loop over the reading <<angle, distance,
\* quality>>: the two filters, the accumulation, and the publication with the
\* clearing of both dicts when the reading is at angle 0 and more than 180
\* angles were accumulated
ScanReading(angle, distance, quality) ==
    LET lp == lidar.loop
        accepted == ~(distance < lidar_min_distance) /\ ~(quality < lidar_min_quality)
        seen == IF lp.angle = 0 THEN {} ELSE lp.hAccepted
        before == IF lp.angle = 0 THEN FALSE ELSE lp.hPublished
        scan1 == dict_append(lp.current_scan, angle, distance)
        quality1 == dict_append(lp.current_quality, angle, quality)
        publish == accepted /\ angle = 0 /\ Cardinality(DOMAIN scan1) > FullRotationAngles
        lp1 == [lp EXCEPT !.angle = angle,
                          !.rotations = IF angle = 0 THEN @ + 1 ELSE @,
                          !.hAccepted = IF accepted THEN seen \cup {angle} ELSE seen,
                          !.hPublished = before \/ publish]
    IN /\ lidar' =
            IF ~accepted
            THEN [lidar EXCEPT !.loop = lp1]
            ELSE IF ~publish
            THEN [lidar EXCEPT !.loop = [lp1 EXCEPT !.current_scan = scan1,
                                                    !.current_quality = quality1]]
            ELSE [lidar EXCEPT !.scan = averaged_dict(scan1),
                               !.scan_quality = averaged_dict(quality1),
                               !.published = @ \cup {[scan |-> averaged_dict(scan1),
                                                      quality |-> averaged_dict(quality1)]},
                               !.publications = @ + 1,
                               !.loop = [lp1 EXCEPT !.current_scan = <<>>,
                                                    !.current_quality = <<>>]]
       /\ UNCHANGED <<coreVars, histVars, objects, blobs, loopVars, raceVars>>

\* the scanner delivers the next reading of the rotation; the stride is chosen
\* when a rotation begins
ScanStep ==
    /\ lidar.loop.rotations < MaxRotations
    /\ \E stride \in (IF lidar.loop.angle = 0 THEN Strides ELSE {lidar.loop.stride}) :
          LET angle == (lidar.loop.angle + stride) % 360
          IN \E r \in ReadingsAt(angle) :
                /\ ScanReading(angle, r[1], r[2])
                /\ lidar'.loop.stride = stride

ScanNext == ScanStep

ScanSpec == Init /\ [][ScanNext]_vars

(***************************************************************************)
(* Specification LoopSpec: Controller.run and the web server's auto mode,  *)
(* from start-up over the ticks to termination; FairLoopSpec adds the      *)
(* scheduling of the keepalive thread and of the tick loop                 *)
(***************************************************************************)
Modes == {"controller", "web"}

\* Parameters.load() runs at construction in both modes
LoopInit ==
    /\ InitBase
    /\ controller \in {[ControllerInit EXCEPT !.mode = m, !.params = p] :
                          m \in Modes, p \in ParamSets}

HardwareOutcomes == {"ok", "motor_failed", "lidar_failed"}

\* WorldStates a tick of the loop may fuse: nothing seen, a left wall, a corner either way
LoopWorlds ==
    {EmptyWorld,
     WorldState(0, WallInfo(Some(300), None, None), <<>>, None, None),
     WorldState(0, NoWalls, <<>>, Some("RIGHT"), None),
     WorldState(0, NoWalls, <<>>, Some("LEFT"), None)}

\* Controller.run up to the first tick: _init_hardware, start(), _running
ControllerRun(hw) ==
    /\ controller.mode = "controller"
    /\ controller.pc = "idle"
    /\ LET c == IF hw = "motor_failed" THEN [motor |-> motor, serial |-> serial]
                ELSE connect(motor, serial)
           f == cleanup(c.motor, c.serial)
       IN IF hw = "ok"
          THEN /\ motor' = c.motor
               /\ serial' = c.serial
               /\ state_machine' = start(state_machine)
               /\ controller' = [controller EXCEPT !.pc = "running", !.running = TRUE]
          ELSE /\ motor' = f.motor
               /\ serial' = f.serial
               /\ controller' = [controller EXCEPT !.pc = "failed"]
               /\ UNCHANGED state_machine
    /\ UNCHANGED <<track_map, world, out, histVars, fusionVars, raceVars, hFusionRaised>>

ControllerRunStep == \E hw \in HardwareOutcomes : ControllerRun(hw)

\* DebugSensors.__init__ with a motor, then WebServer._on_startup
WebServe ==
    /\ controller.mode = "web"
    /\ controller.pc = "idle"
    /\ LET c == connect(motor, serial)
       IN motor' = c.motor /\ serial' = c.serial
    /\ controller' = [controller EXCEPT !.pc = "manual", !.keepalive_running = TRUE,
                                        !.keepalive_alive = TRUE]
    /\ UNCHANGED <<coreVars, histVars, fusionVars, raceVars, hFusionRaised>>

\* DebugSensors.start_auto: fresh state machine and track map, start(),
\* reset_encoder()
StartAuto ==
    /\ controller.mode = "web"
    /\ controller.pc \in {"manual", "exited"}
    /\ ~controller.running
    /\ state_machine' = start(StateMachineInit)
    /\ track_map' = TrackMapInit
    /\ controller' = [controller EXCEPT !.pc = "running", !.running = TRUE]
    /\ motor' = [motor EXCEPT !.encoder = 0]
    /\ hFusionRaised' = FALSE
    /\ UNCHANGED <<world, out, histVars, fusionVars, raceVars, serial>>

\* the end of one run loop: DONE break, error, or the while condition failing
Terminate(m, s) ==
    IF controller.mode = "controller"
    THEN LET f == cleanup(m, s)
         IN /\ motor' = f.motor
            /\ serial' = f.serial
            /\ controller' = [controller EXCEPT !.pc = "closed", !.running = FALSE]
    ELSE LET f == auto_loop_finally(m, s)
         IN /\ motor' = f.motor
            /\ serial' = f.serial
            /\ controller' = [controller EXCEPT !.pc = "exited", !.running = FALSE]

\* what the ESP32 may have sent since it was last read: nothing, a status line
\* reporting a speed and steering other than any target, a short status line,
\* an error line, other text, an unparsable status line before a good one
ReportedStatus == StatusLine("S", <<Some(5), 7, 33>>)

IncomingLines ==
    {<<>>,
     <<ReportedStatus>>,
     <<StatusLine("S", <<Some(5)>>)>>,
     <<StatusLine("E", <<>>)>>,
     <<StatusLine("?", <<>>)>>,
     <<StatusLine("S", <<None, 7, 33>>), ReportedStatus>>}

\* one pass of _control_loop / _auto_loop in which fusion returns w; the
\* controller's loop first reads one status line with Motor.update
LoopTick(w) ==
    /\ controller.pc = "running"
    /\ controller.running
    /\ ~controller.stalled
    /\ PipelineWith(w, controller.params)
    /\ \E lines \in (IF controller.mode = "controller" THEN IncomingLines ELSE {<<>>}) :
          LET m0 == IF lines = <<>> THEN motor ELSE motor_update(motor, Head(lines)).motor
              r == decide(state_machine, w, TrackMap_update(track_map, w))
              o == tuned_output(r.out, controller.params)
              d == IF controller.mode = "controller"
                   THEN drive(m0, serial, o[1], o[2])
                   ELSE [motor |-> IF motor.connected
                                   THEN set_target(motor, o[1], o[2]) ELSE motor,
                         serial |-> serial]
          IN IF r.sm.state = "DONE"
             THEN Terminate(d.motor, d.serial)
             ELSE /\ motor' = d.motor
                  /\ serial' = d.serial
                  /\ UNCHANGED controller
    /\ hFusionRaised' = FALSE
    /\ UNCHANGED <<hSightings, hLeft, hInSighting, fusionVars, raceVars>>

LoopTickStep == \E w \in LoopWorlds : LoopTick(w)

\* one pass in which fusion.update() raises
TickRaise ==
    /\ controller.pc = "running"
    /\ controller.running
    /\ ~controller.stalled
    /\ Terminate(motor, serial)
    /\ hFusionRaised' = TRUE
    /\ UNCHANGED <<coreVars, histVars, fusionVars, raceVars>>

\* one pass that does not return from fusion.update() (clustering takes long)
TickStall ==
    /\ controller.pc = "running"
    /\ controller.running
    /\ ~controller.stalled
    /\ controller' = [controller EXCEPT !.stalled = TRUE]
    /\ UNCHANGED <<coreVars, histVars, fusionVars, raceVars, motor, serial, hFusionRaised>>

\* Controller._shutdown, the signal handler
Shutdown ==
    /\ controller.mode = "controller"
    /\ controller.pc = "running"
    /\ controller.running
    /\ ~controller.stalled
    /\ controller' = [controller EXCEPT !.running = FALSE]
    /\ UNCHANGED <<coreVars, histVars, fusionVars, raceVars, motor, serial, hFusionRaised>>

\* _control_loop finds _running cleared and returns into run()'s finally
LoopExit ==
    /\ controller.mode = "controller"
    /\ controller.pc = "running"
    /\ ~controller.running
    /\ Terminate(motor, serial)
    /\ UNCHANGED <<coreVars, histVars, fusionVars, raceVars, hFusionRaised>>

\* DebugSensors.stop_auto: the task is cancelled, its finally runs, drive(0, 90)
StopAuto ==
    /\ controller.mode = "web"
    /\ controller.pc = "running"
    /\ ~controller.stalled
    /\ LET f == auto_loop_finally(motor, serial)
           g == drive(f.motor, f.serial, 0, STEERING_CENTER)
       IN motor' = g.motor /\ serial' = g.serial
    /\ controller' = [controller EXCEPT !.pc = "exited", !.running = FALSE]
    /\ UNCHANGED <<coreVars, histVars, fusionVars, raceVars, hFusionRaised>>

\* the finally block of run_web: stop_auto if running, disconnect, server cleanup
WebShutdown ==
    /\ controller.mode = "web"
    /\ controller.pc \in {"manual", "running", "exited"}
    /\ ~controller.stalled
    /\ LET f == IF controller.running
                THEN LET a == auto_loop_finally(motor, serial)
                     IN drive(a.motor, a.serial, 0, STEERING_CENTER)
                ELSE [motor |-> motor, serial |-> serial]
           g == disconnect(f.motor, f.serial)
       IN motor' = g.motor /\ serial' = g.serial
    /\ controller' = [controller EXCEPT !.pc = "closed", !.running = FALSE,
                                        !.keepalive_running = FALSE,
                                        !.keepalive_alive = FALSE]
    /\ UNCHANGED <<coreVars, histVars, fusionVars, raceVars, hFusionRaised>>

\* one pass of WebServer._motor_keepalive_loop, on its own thread
KeepalivePass(lines) ==
    /\ controller.keepalive_running
    /\ controller.keepalive_alive
    /\ motor.connected
    /\ serial' = send_command(motor, serial)
    /\ motor' = drain(motor, lines)
    /\ UNCHANGED <<coreVars, histVars, fusionVars, raceVars, controller, hFusionRaised>>

Keepalive == \E lines \in IncomingLines : KeepalivePass(lines)

\* one pass in which the serial write of _send_command raises: nothing in
\* _motor_keepalive_loop catches it, so the thread's function returns
KeepaliveRaise ==
    /\ controller.keepalive_running
    /\ controller.keepalive_alive
    /\ motor.connected
    /\ controller' = [controller EXCEPT !.keepalive_alive = FALSE]
    /\ UNCHANGED <<coreVars, histVars, fusionVars, raceVars, motor, serial, hFusionRaised>>

\* speed and steering values a web client may send: in range, and one step
\* beyond each end of both ranges
DriveRequests == {<<40, 70>>, <<101, 181>>, <<-101, -1>>}

\* WebServer.api_drive: the targets are set, the keepalive thread writes them
ApiDrive(speed, steering) ==
    /\ controller.mode = "web"
    /\ controller.pc \in {"manual", "running", "exited"}
    /\ ~controller.stalled
    /\ motor' = set_target(motor, speed, steering)
    /\ UNCHANGED <<coreVars, histVars, fusionVars, raceVars, controller, serial, hFusionRaised>>

ApiDriveStep == \E d \in DriveRequests : ApiDrive(d[1], d[2])

\* WebServer.ws_control, cmd "drive": Motor.drive on the event loop
WsDrive(speed, steering) ==
    /\ controller.mode = "web"
    /\ controller.pc \in {"manual", "running", "exited"}
    /\ ~controller.stalled
    /\ LET d == drive(motor, serial, speed, steering)
       IN motor' = d.motor /\ serial' = d.serial
    /\ UNCHANGED <<coreVars, histVars, fusionVars, raceVars, controller, hFusionRaised>>

WsDriveStep == \E d \in DriveRequests : WsDrive(d[1], d[2])

\* WebServer.api_params_set: Parameters.update on the shared object
ApiParamsSet ==
    /\ controller.mode = "web"
    /\ controller.pc \in {"manual", "running", "exited"}
    /\ ~controller.stalled
    /\ \E p \in ParamSets : controller' = [controller EXCEPT !.params = p]
    /\ UNCHANGED <<coreVars, histVars, fusionVars, raceVars, motor, serial, hFusionRaised>>

LoopNext ==
    \/ ControllerRunStep
    \/ ApiDriveStep
    \/ WsDriveStep
    \/ ApiParamsSet
    \/ WebServe
    \/ StartAuto
    \/ LoopTickStep
    \/ TickRaise
    \/ TickStall
    \/ Shutdown
    \/ LoopExit
    \/ StopAuto
    \/ WebShutdown
    \/ Keepalive
    \/ KeepaliveRaise

LoopSpec == LoopInit /\ [][LoopNext]_vars

FairLoopSpec == LoopSpec /\ WF_vars(Keepalive) /\ WF_vars(LoopTickStep)

(***************************************************************************)
(* Specification RaceSpec: the web server with a motor, its event loop and *)
(* its keepalive thread interleaved statement by statement.  The event     *)
(* loop runs one request at a time; the keepalive thread (a                *)
(* threading.Thread) may run between any two of its statements.            *)
(***************************************************************************)
RaceInit ==
    /\ InitBase
    /\ controller = [ControllerInit EXCEPT !.mode = "web"]

\* (speed, steering) pairs a request sets: decide() outputs of the auto loop
\* (wall follow straight ahead, the blind hold for red) and api_stop
RaceTargets == {<<normal_speed, STEERING_CENTER>>, <<slow_speed, 10>>, <<0, STEERING_CENTER>>}

\* Motor._serial is a port object: set by connect(), None again in disconnect()
HasSerial == motor.connected /\ threads.ev # "serial_none"

\* the first of the two assignments of _auto_loop, api_drive and api_stop
SetSpeed(p) ==
    /\ controller.pc = "manual"
    /\ threads.ev = "idle"
    /\ motor.connected
    /\ motor' = [motor EXCEPT !.speed = Clamp(p[1], -MOTOR_SPEED_LIMIT, MOTOR_SPEED_LIMIT)]
    /\ threads' = [threads EXCEPT !.ev = "steering_pending", !.pending = Some(p[2])]
    /\ UNCHANGED <<coreVars, histVars, fusionVars, controller, serial, hFusionRaised>>

SetSpeedStep == \E p \in RaceTargets : SetSpeed(p)

\* the second assignment
SetSteering ==
    /\ threads.ev = "steering_pending"
    /\ motor' = [motor EXCEPT !.steering = Clamp(Val(threads.pending), 0, SERVO_RANGE)]
    /\ threads' = [threads EXCEPT !.ev = "idle", !.pending = None]
    /\ UNCHANGED <<coreVars, histVars, fusionVars, controller, serial, hFusionRaised>>

\* run_web's finally with no auto run in progress: Motor.disconnect begins,
\* emergency_stop writes E
EstopWrite ==
    /\ controller.pc = "manual"
    /\ threads.ev = "idle"
    /\ motor.connected
    /\ serial' = [serial EXCEPT !.estop = TRUE]
    /\ threads' = [threads EXCEPT !.ev = "estop_written"]
    /\ UNCHANGED <<coreVars, histVars, fusionVars, controller, motor, hFusionRaised>>

\* emergency_stop: self._speed = 0
EstopZero ==
    /\ threads.ev = "estop_written"
    /\ motor' = [motor EXCEPT !.speed = 0]
    /\ threads' = [threads EXCEPT !.ev = "speed_zeroed"]
    /\ UNCHANGED <<coreVars, histVars, fusionVars, controller, serial, hFusionRaised>>

\* disconnect: self._serial.close()
ClosePort ==
    /\ threads.ev = "speed_zeroed"
    /\ serial' = [serial EXCEPT !.open = FALSE]
    /\ threads' = [threads EXCEPT !.ev = "port_closed"]
    /\ UNCHANGED <<coreVars, histVars, fusionVars, controller, motor, hFusionRaised>>

\* disconnect: self._serial = None
DropSerial ==
    /\ threads.ev = "port_closed"
    /\ threads' = [threads EXCEPT !.ev = "serial_none"]
    /\ UNCHANGED <<coreVars, histVars, fusionVars, loopVars>>

\* disconnect: self._connected = False
MarkDisconnected ==
    /\ threads.ev = "serial_none"
    /\ motor' = [motor EXCEPT !.connected = FALSE]
    /\ threads' = [threads EXCEPT !.ev = "disconnected"]
    /\ UNCHANGED <<coreVars, histVars, fusionVars, controller, serial, hFusionRaised>>

\* runner.cleanup(): _on_cleanup clears _keepalive_running
ServerCleanup ==
    /\ threads.ev = "disconnected"
    /\ controller' = [controller EXCEPT !.pc = "closed", !.keepalive_running = FALSE]
    /\ threads' = [threads EXCEPT !.ev = "cleaned"]
    /\ UNCHANGED <<coreVars, histVars, fusionVars, motor, serial, hFusionRaised>>

\* _motor_keepalive_loop: the while test and "if motor and motor.is_connected"
KaCheck ==
    /\ threads.ka = "sleep"
    /\ controller.keepalive_alive
    /\ IF ~controller.keepalive_running
       THEN /\ controller' = [controller EXCEPT !.keepalive_alive = FALSE]
            /\ threads' = [threads EXCEPT !.ka = "ended"]
       ELSE /\ motor.connected
            /\ threads' = [threads EXCEPT !.ka = "send"]
            /\ UNCHANGED controller
    /\ UNCHANGED <<coreVars, histVars, fusionVars, motor, serial, hFusionRaised>>

\* _send_command: "if not self._serial: return"
KaSerialCheck ==
    /\ threads.ka = "send"
    /\ threads' = [threads EXCEPT !.ka = IF HasSerial THEN "read_steering" ELSE "sleep"]
    /\ UNCHANGED <<coreVars, histVars, fusionVars, loopVars>>

\* _send_command: hw_steering = 180 - self._steering
KaReadSteering ==
    /\ threads.ka = "read_steering"
    /\ threads' = [threads EXCEPT !.ka = "format",
                                  !.ka_steering = Some(SERVO_RANGE - motor.steering)]
    /\ UNCHANGED <<coreVars, histVars, fusionVars, loopVars>>

\* _send_command: command = f"C:{self._speed},{hw_steering}\n"
KaFormat ==
    /\ threads.ka = "format"
    /\ threads' = [threads EXCEPT !.ka = "write", !.ka_steering = None,
                                  !.ka_command = Some(<<motor.speed, Val(threads.ka_steering)>>)]
    /\ UNCHANGED <<coreVars, histVars, fusionVars, loopVars>>

\* _send_command: self._serial.write(...), then the drain loop of the pass.
\* With _serial None the attribute lookup raises, on a closed port write()
\* raises; nothing in the thread catches either
KaWrite(lines) ==
    /\ threads.ka = "write"
    /\ IF HasSerial /\ serial.open
       THEN /\ serial' = [serial EXCEPT !.command = threads.ka_command, !.tx = 1 - @]
            /\ motor' = drain(motor, lines)
            /\ threads' = [threads EXCEPT
                  !.ka = "sleep", !.ka_command = None,
                  !.late_frame = @ \/ (serial.estop /\ Val(threads.ka_command)[1] # 0)]
            /\ UNCHANGED controller
       ELSE /\ controller' = [controller EXCEPT !.keepalive_alive = FALSE]
            /\ threads' = [threads EXCEPT !.ka = "raised", !.ka_command = None,
                                          !.closed_write = @ \/ HasSerial]
            /\ UNCHANGED <<motor, serial>>
    /\ UNCHANGED <<coreVars, histVars, fusionVars, hFusionRaised>>

KaWriteStep == \E lines \in {<<>>, <<ReportedStatus>>} : KaWrite(lines)

RaceNext ==
    \/ WebServe
    \/ SetSpeedStep
    \/ SetSteering
    \/ EstopWrite
    \/ EstopZero
    \/ ClosePort
    \/ DropSerial
    \/ MarkDisconnected
    \/ ServerCleanup
    \/ KaCheck
    \/ KaSerialCheck
    \/ KaReadSteering
    \/ KaFormat
    \/ KaWriteStep

RaceSpec == RaceInit /\ [][RaceNext]_vars

(***************************************************************************)
(* Claims checked under Spec                                               *)
(***************************************************************************)

\* C1: once decide() has entered AVOID_PILLAR (from WALL_FOLLOW or CORNER),
\* no decide() call leaves it before min_avoid_frames (25) consecutive calls,
\* the entering one included, have ended in AVOID_PILLAR, whatever the
\* WorldStates were.
C1_AvoidHeldForMinFrames ==
    [][(state_machine.state = "AVOID_PILLAR" /\ state_machine'.state # "AVOID_PILLAR")
        => hAvoidCalls >= min_avoid_frames]_vars

\* C1 witness: deep in the hold (25 calls ended in AVOID_PILLAR) with the
\* latched pillar visible beyond clear_distance, which would otherwise clear it
C1_Witness ==
    /\ state_machine.state = "AVOID_PILLAR"
    /\ hAvoidCalls = min_avoid_frames
    /\ ~IsNone(find_avoiding_pillar(state_machine, world))
    /\ Val(find_avoiding_pillar(state_machine, world)).distance > clear_distance

\* C8: on the k-th decide() after the entering one, if no pillar of the
\* latched colour has been visible since entry (this call included), the
\* state stays AVOID_PILLAR when k <= 2*min_avoid_frames and is WALL_FOLLOW
\* when k = 2*min_avoid_frames + 1.
C8_BlindExitAtFrame51 ==
    [][(/\ state_machine.state = "AVOID_PILLAR"
        /\ state_machine' # state_machine
        /\ ~hLatchedSeen
        /\ IsNone(find_avoiding_pillar(state_machine, world')))
        => /\ hAvoidCalls <= 2 * min_avoid_frames + 1
           /\ state_machine'.state = IF hAvoidCalls <= 2 * min_avoid_frames
                                     THEN "AVOID_PILLAR" ELSE "WALL_FOLLOW"]_vars

\* C8 witness: back in WALL_FOLLOW after 51 calls ended in AVOID_PILLAR (the
\* entering one and frames 1..50) without the latched colour ever being seen
C8_Witness ==
    /\ state_machine.state = "WALL_FOLLOW"
    /\ hAvoidCalls = 2 * min_avoid_frames + 1
    /\ ~hLatchedSeen
    /\ state_machine.avoid_frames = 2 * min_avoid_frames + 1

(***************************************************************************)
(* Claims checked under TrackSpec                                          *)
(***************************************************************************)

\* C9: once the first lap is complete, an update() call with any WorldState
\* leaves direction, corners, sections, pillars, parking_zone and lap_length
\* as they were.
C9_FrozenMapUnchanged ==
    [][~track_map.first_lap
        => /\ track_map'.direction = track_map.direction
           /\ track_map'.corners = track_map.corners
           /\ track_map'.sections = track_map.sections
           /\ track_map'.pillars = track_map.pillars
           /\ track_map'.parking_zone = track_map.parking_zone
           /\ track_map'.lap_length = track_map.lap_length]_vars

\* C9 witness: update() was called on the completed map with a WorldState
\* holding pillars and a parking marker, and recorded neither
C9_Witness ==
    /\ ~track_map.first_lap
    /\ world.pillars # <<>>
    /\ ~IsNone(world.parking_marker)
    /\ track_map.pillars = <<>>
    /\ IsNone(track_map.parking_zone)

\* C10: any two consecutive entries of TrackMap.corners differ in
\* encoder_pos by at least corner_tolerance.
C10_CornersApart ==
    \A i \in 1..(Len(track_map.corners) - 1) :
        Abs(track_map.corners[i + 1].encoder_pos - track_map.corners[i].encoder_pos)
            >= corner_tolerance

\* C10 witness: two corners exactly corner_tolerance apart are recorded and
\* the latest sighting, 99 ticks from the last corner, was dropped
C10_Witness ==
    /\ track_map.first_lap
    /\ Len(track_map.corners) >= 2
    /\ \E i \in 1..(Len(track_map.corners) - 1) :
          track_map.corners[i + 1].encoder_pos - track_map.corners[i].encoder_pos
              = corner_tolerance
    /\ ~IsNone(world.corner_ahead)
    /\ Abs(world.encoder_pos - track_map.last_corner_enc) = corner_tolerance - 1

(***************************************************************************)
(* Claims checked under LapSpec                                            *)
(***************************************************************************)

\* C3: in a run of the tick pipeline with no pillars, a strictly increasing
\* encoder and separate corner sightings, the state is DONE once the twelfth
\* corner has been left (lap_count = target_laps).
C3_DoneAfterTwelfthCorner ==
    hLeft >= 4 * target_laps => state_machine.state = "DONE"

(***************************************************************************)
(* Claims checked under FusionSpec                                         *)
(***************************************************************************)
\* the cluster and blob behind a fused pillar, as the claim C2 describes them
Backed(p) ==
    \E b \in 1..Len(blobs), i \in 1..Len(objects) :
       /\ blobs[b].color \in {"red", "green"}
       /\ blobs[b].color = p.color
       /\ blobs[b].angle = p.angle
       /\ objects[i].obj_type = "pillar"
       /\ SizeEligible(objects[i])
       /\ angle_diff(blobs[b], objects[i]) < ANGLE_MATCH_THRESHOLD
       /\ objects[i].distance = p.distance

\* C2: every Pillar produced by fusion is backed by a red or green blob of
\* the same colour and angle and by a cluster of kind pillar, with a width
\* in [pillar_size_min, pillar_size_max], within angle_match_threshold of
\* the blob, whose distance is the pillar's.
C2_PillarsBacked ==
    \A k \in 1..Len(world.pillars) : Backed(world.pillars[k])

\* the case of C7: two red/green blobs, one size-eligible cluster, both blobs
\* within the threshold of it, one strictly nearer in angle
TwoBlobsOneCluster ==
    /\ Len(blobs) = 2
    /\ \A b \in 1..2 : IsPillarBlob(blobs[b])
    /\ Cardinality({i \in 1..Len(objects) : SizeEligible(objects[i])}) = 1
    /\ \A b \in 1..2 : MatchCandidates(blobs[b], objects, {}) # {}
    /\ \E i \in MatchCandidates(blobs[1], objects, {}) :
          angle_diff(blobs[1], objects[i]) # angle_diff(blobs[2], objects[i])

NearerBlob ==
    LET i == CHOOSE j \in 1..Len(objects) : SizeEligible(objects[j])
    IN IF angle_diff(blobs[1], objects[i]) < angle_diff(blobs[2], objects[i])
       THEN blobs[1] ELSE blobs[2]

\* C7: two red/green blobs within the threshold of one eligible cluster give
\* exactly one Pillar, with the colour and angle of the blob nearer in angle,
\* whatever the order of the two blobs.
C7_NearerBlobWins ==
    TwoBlobsOneCluster
        => /\ Len(world.pillars) = 1
           /\ world.pillars[1].color = NearerBlob.color
           /\ world.pillars[1].angle = NearerBlob.angle

(***************************************************************************)
(* Claims checked under LoopSpec and FairLoopSpec                          *)
(***************************************************************************)

\* C4: whenever the tick loop has terminated, the motor target is speed 0
\* and steering 90, and a stop command was written before the link closed.
C4_StoppedAndCentred ==
    controller.pc \in {"exited", "closed"}
        => /\ motor.speed = 0
           /\ motor.steering = STEERING_CENTER
           /\ (serial.estop \/ (~IsNone(serial.command) /\ Val(serial.command)[1] = 0))

\* C5: in both run modes, while the motor is connected and the tick loop is
\* stalled inside a tick, C: commands keep being written.
C5_CommandsWhileStalled ==
    \A b \in {0, 1} :
        (controller.stalled /\ motor.connected /\ serial.tx = b) ~> (serial.tx # b)

\* C6: after a tick in which fusion raised, the loop is still running.
C6_LoopSurvivesFusionError ==
    hFusionRaised => (controller.pc = "running" /\ controller.running)

(***************************************************************************)
(* Further claims checked under TrackSpec                                  *)
(***************************************************************************)
\* update() applied to each WorldState of a run in turn
RECURSIVE UpdateAll(_, _)
UpdateAll(tm, ws) == IF ws = <<>> THEN tm ELSE UpdateAll(TrackMap_update(tm, Head(ws)), Tail(ws))

\* two section lists are the same: same bounds, same average width sum/count
SameSections(a, b) ==
    /\ Len(a) = Len(b)
    /\ \A i \in 1..Len(a) :
          /\ a[i].start_encoder = b[i].start_encoder
          /\ a[i].end_encoder = b[i].end_encoder
          /\ a[i].width[1] * b[i].width[2] = b[i].width[1] * a[i].width[2]

\* two maps agree on everything TrackMap exposes
SameMap(a, b) ==
    /\ a.direction = b.direction
    /\ a.corners = b.corners
    /\ SameSections(a.sections, b.sections)
    /\ a.pillars = b.pillars
    /\ a.parking_zone = b.parking_zone
    /\ a.lap_length = b.lap_length

\* later updates a run may continue with: nothing, a narrower corridor, a corner
ContinuationRuns ==
    {<<>>,
     <<WorldState(400, NoWalls, <<>>, Some("RIGHT"), None)>>,
     <<WorldState(250, WallInfo(Some(300), Some(300), None), <<>>, None, None),
       WorldState(400, NoWalls, <<>>, Some("RIGHT"), None)>>}

\* C11: the map after update(world) equals the map after update(world) twice,
\* at once and after any identical continuation of later updates.
C11_UpdateIdempotent ==
    ~IsNone(track_map.lap_start)
        => \A run \in ContinuationRuns :
              SameMap(UpdateAll(TrackMap_update(track_map, world), run),
                      UpdateAll(track_map, run))

\* C12: the first lap completes exactly in the update() call that appends the
\* fourth corner; that call sets lap_length to its encoder_pos minus
\* lap_start, the encoder_pos of the first update ever made; until then
\* lap_length is unset and the first lap is not complete.
C12_LapCompletesAtFourthCorner ==
    [][/\ IsNone(track_map.lap_start) => track_map'.lap_start = Some(world'.encoder_pos)
       /\ ~IsNone(track_map.lap_start) => track_map'.lap_start = track_map.lap_start
       /\ track_map'.first_lap <=> Len(track_map'.corners) < 4
       /\ track_map'.first_lap => IsNone(track_map'.lap_length)
       /\ (track_map.first_lap /\ ~track_map'.first_lap)
             => /\ Len(track_map.corners) = 3
                /\ Len(track_map'.corners) = 4
                /\ track_map'.corners[4].encoder_pos = world'.encoder_pos
                /\ track_map'.lap_length
                      = Some(world'.encoder_pos - Val(track_map'.lap_start))]_vars

\* C12 witness: a lap begun by an update at encoder 100 and completed by the
\* fourth corner at encoder 300
C12_Witness ==
    /\ ~track_map.first_lap
    /\ Len(track_map.corners) = 4
    /\ track_map.lap_start = Some(100)
    /\ track_map.corners[4].encoder_pos = 300
    /\ track_map.lap_length = Some(200)

\* encoder arguments the queries are asked with
QueryEncoders == {-150, 0, 150, 450}

\* C13: after any sequence of update() calls, the encoder decreasing or not,
\* each of the five queries returns for every encoder argument: none raises.
C13_QueriesNeverRaise ==
    \A e \in QueryEncoders :
        /\ ~get_next_corner(track_map, e).raised
        /\ ~get_expected_pillars(track_map, e).raised
        /\ ~get_section_width(track_map, e).raised
        /\ ~get_distance_to_parking(track_map, e).raised
        /\ \A laps \in 0..target_laps : ~should_prepare_parking(track_map, e, laps).raised

(***************************************************************************)
(* Further claims checked under LoopSpec                                   *)
(***************************************************************************)
\* C14: every C: frame on the link, written by drive, stop or the keepalive
\* retransmit, carries a speed in [-100, 100] and a steering in [0, 180],
\* whatever decide returns, whatever a web client requests and whatever the
\* parameters hold.  The frame carries 180 - steering.
C14_FramesInRange ==
    ~IsNone(serial.command)
        => /\ Val(serial.command)[1] \in -MOTOR_SPEED_LIMIT..MOTOR_SPEED_LIMIT
           /\ SERVO_RANGE - Val(serial.command)[2] \in 0..SERVO_RANGE

\* a frame at both upper limits, which only a request beyond them produces
C14_Witness ==
    /\ controller.mode = "web"
    /\ serial.command = Some(<<MOTOR_SPEED_LIMIT, SERVO_RANGE - SERVO_RANGE>>)

(***************************************************************************)
(* Claims checked under LidarSpec                                          *)
(***************************************************************************)
\* C15: every scan get_scan() returns is the filtering of one published scan
\* by that same publication's quality values, under any interleaving with
\* the acquisition thread.
C15_ScanSelfConsistent ==
    ~IsNone(lidar.returned)
        => \E p \in lidar.published : Val(lidar.returned) = filter_scan(p.scan, p.quality)

(***************************************************************************)
(* Further claims checked under LoopSpec: who writes to the port           *)
(***************************************************************************)
\* C16: once the port is open, no step of the tick loop, its termination
\* path included, writes a C: frame to the port; only the keepalive does.
C16_OnlyKeepaliveWrites ==
    [][(serial.open /\ (LoopTickStep \/ TickRaise \/ LoopExit))
          => serial'.tx = serial.tx]_vars

\* C17: a keepalive pass leaves the target speed and target steering as they
\* were, whatever status or error lines it drains; it retransmits the target
\* and may update the encoder reading.
C17_KeepaliveKeepsTarget ==
    [][Keepalive => /\ motor'.speed = motor.speed
                    /\ motor'.steering = motor.steering
                    /\ serial'.command = Some(<<motor.speed, SERVO_RANGE - motor.steering>>)]_vars

\* a status line reporting speed 7 and steering 33 was drained (the encoder
\* reads 5) while the target, retransmitted in the last frame, is something else
C17_Witness ==
    /\ motor.encoder = Val(ReportedStatus.parts[1])
    /\ motor.speed = 40
    /\ motor.steering = 70
    /\ serial.command = Some(<<40, SERVO_RANGE - 70>>)

(***************************************************************************)
(* Claims checked under StopSpec                                           *)
(***************************************************************************)
\* C18: in IDLE and in DONE a decide() call returns (0, STEERING_CENTER) and
\* leaves the state machine (state, lap_count, avoidance fields) as it was;
\* and no decide() call, with any WorldState and TrackMap, leaves DONE.
C18_IdleAndDoneInert ==
    [][Decide(world') =>
          /\ state_machine.state \in {"IDLE", "DONE"}
                => (out' = <<0, STEERING_CENTER>> /\ state_machine' = state_machine)
          /\ state_machine.state = "DONE" => state_machine'.state = "DONE"]_vars

\* stopped in mid-avoidance, then decide() called in DONE with a blocking
\* pillar in view and a track map that knows the direction: the output is the
\* stop output although the last output before stop() had slow_speed
C18_Witness ==
    /\ state_machine.state = "DONE"
    /\ ~IsNone(state_machine.avoiding_pillar)
    /\ IsNone(state_machine.direction)
    /\ ~IsNone(track_map.direction)
    /\ ~IsNone(blocking_pillar(world))
    /\ out = <<0, STEERING_CENTER>>

(***************************************************************************)
(* Further claims checked under Spec                                       *)
(***************************************************************************)
\* C19: a decide() call made in WALL_FOLLOW or CORNER with a blocking pillar
\* in the WorldState ends in AVOID_PILLAR with that pillar's colour latched,
\* phase 0 (approach) and frame counter 0, whatever corner_ahead, lap_count
\* and the parking marker are.
C19_BlockingPillarEntersAvoid ==
    [][(/\ Decide(world')
        /\ state_machine.state \in {"WALL_FOLLOW", "CORNER"}
        /\ ~IsNone(blocking_pillar(world')))
        => /\ state_machine'.state = "AVOID_PILLAR"
           /\ state_machine'.avoiding_pillar = Some(Val(blocking_pillar(world')).color)
           /\ state_machine'.avoid_phase = 0
           /\ state_machine'.avoid_frames = 0]_vars

(***************************************************************************)
(* Further claims checked under LapSpec                                    *)
(***************************************************************************)
\* C20: lap_count goes up by exactly one each time the fourth corner of a
\* group is left and is unchanged at every other corner exit, so with k
\* corners left behind (and none in view) lap_count is k divided by 4,
\* rounded down: k after the k-th group of four.
C20_LapCountPerFourCorners ==
    hInSighting = 0 => state_machine.lap_count = hLeft \div 4

\* C21: a decide() call that ends in AVOID_PILLAR with no pillar of the
\* latched colour in its WorldState returns slow_speed and the blind-hold
\* steering, centre - max_steer_offset for red and centre + max_steer_offset
\* for green ((35, 10) and (35, 170)), whatever other pillars are in view.
C21_BlindHoldOutput ==
    [][(/\ Decide(world')
        /\ state_machine'.state = "AVOID_PILLAR"
        /\ \A i \in 1..Len(world'.pillars) :
              Some(world'.pillars[i].color) # state_machine'.avoiding_pillar)
        => out' = <<slow_speed,
                    IF state_machine'.avoiding_pillar = Some("red")
                    THEN STEERING_CENTER - max_steer_offset
                    ELSE STEERING_CENTER + max_steer_offset>>]_vars

\* red is latched, the only pillar in view is a green one straight ahead at
\* 250 mm, and the output is the hold to the left
C21_Witness ==
    /\ state_machine.state = "AVOID_PILLAR"
    /\ state_machine.avoiding_pillar = Some("red")
    /\ state_machine.avoid_frames > 0
    /\ world.pillars = <<Pillar("green", 0, 250)>>
    /\ out = <<35, 10>>

(***************************************************************************)
(* Claims checked under StrategySpec                                       *)
(***************************************************************************)
\* twice the wall-follow error of C22 for the walls of a WorldState: right
\* minus the clamped corridor centre, right minus min_clearance, or
\* min_clearance minus left
C22_Error2(w) ==
    LET l == w.walls.left_distance
        r == w.walls.right_distance
    IN IF ~IsNone(l) /\ ~IsNone(r)
       THEN LET c == Val(l) + Val(r)
                centre2 == IF c < 2 * min_clearance THEN 2 * min_clearance
                           ELSE IF c > 2 * (c - min_clearance) THEN 2 * (c - min_clearance)
                           ELSE c
            IN 2 * Val(r) - (IF centre2 < 2 * min_clearance THEN 2 * min_clearance ELSE centre2)
       ELSE IF ~IsNone(r) THEN 2 * (Val(r) - min_clearance)
       ELSE 2 * (min_clearance - Val(l))

\* C22: the wall-follow output is normal_speed with the steering
\* clamp(centre + trunc(kp * error), 60, 120), kp = 0.5, error as the claim
\* gives it for two walls, one wall and no wall; so (60, 90) for the empty
\* world and for left = right = 400, and (60, 120) for left 300, right 500.
C22_WallFollowOutput ==
    [][world'.pillars = <<>> =>
         /\ out'[1] = normal_speed
         /\ IF IsNone(world'.walls.left_distance) /\ IsNone(world'.walls.right_distance)
            THEN out'[2] = STEERING_CENTER
            ELSE \E t \in -200..200 :
                    /\ 4 * Abs(t) <= Abs(C22_Error2(world'))
                    /\ Abs(C22_Error2(world')) < 4 * (Abs(t) + 1)
                    /\ t * C22_Error2(world') >= 0
                    /\ out'[2] = (IF STEERING_CENTER + t < wall_steering_min
                                  THEN wall_steering_min
                                  ELSE IF STEERING_CENTER + t > wall_steering_max
                                  THEN wall_steering_max
                                  ELSE STEERING_CENTER + t)
         /\ world'.walls = WallInfo(Some(400), Some(400), None) => out' = <<60, 90>>
         /\ world'.walls = WallInfo(Some(300), Some(500), None) => out' = <<60, 120>>
         /\ world'.walls = NoWalls => out' = <<60, 90>>]_vars

\* only the left wall is seen, one millimetre beyond min_clearance: the error
\* is -1, kp * error is -0.5, int() makes it 0 and the steering is the centre
C22_Witness ==
    /\ world.walls = WallInfo(Some(151), None, None)
    /\ world.pillars = <<>>
    /\ out = <<60, 90>>

C24_MalformedLineFlushes ==
    \A lines \in IncomingLines \ {<<>>} :
        LET line == Head(lines)
            malformed == \/ line.kind \notin {"S", "E"}
                         \/ line.kind = "S" /\ Len(line.parts) < 3
                         \/ line.kind = "S" /\ Len(line.parts) >= 3 /\ IsNone(line.parts[1])
            u == motor_update(motor, line)
        IN (motor.connected /\ malformed) => (u.flushed /\ u.motor = motor)

\* C25: an error raised inside a keepalive pass (a failed serial write) is
\* caught at that pass, so while the server is up the keepalive activity is
\* still there for its next period; the tick loop is not ended by it.
C25_KeepaliveSurvivesError ==
    (controller.keepalive_running /\ motor.connected) => controller.keepalive_alive

(***************************************************************************)
(* Further claims checked under TrackSpec: corner order and the queries    *)
(***************************************************************************)
\* C26: after any sequence of update() calls, TrackMap.corners is in order
\* of strictly increasing encoder_pos.
C26_CornersIncreasing ==
    \A i \in 1..(Len(track_map.corners) - 1) :
        track_map.corners[i].encoder_pos < track_map.corners[i + 1].encoder_pos

C28_WallFollowRuleOrder ==
    [][(/\ Decide(world')
        /\ state_machine.state = "WALL_FOLLOW"
        /\ \A i \in 1..Len(world'.pillars) :
              ~(world'.pillars[i].angle < 30 /\ world'.pillars[i].angle > -30))
        => state_machine'.state =
              IF ~IsNone(world'.corner_ahead) THEN "CORNER"
              ELSE IF state_machine.lap_count >= target_laps
                      /\ ~IsNone(world'.parking_marker)
              THEN "PARKING"
              ELSE "WALL_FOLLOW"]_vars

\* CORNER was entered with three laps counted and the parking marker in view
C28_Witness ==
    /\ state_machine.state = "CORNER"
    /\ state_machine.lap_count >= target_laps
    /\ ~IsNone(world.corner_ahead)
    /\ ~IsNone(world.parking_marker)
    /\ world.pillars = <<>>


\* C29: after the first lap, get_next_corner(encoder) returns a recorded corner
\* at the smallest positive forward distance from the normalized encoder, with
\* that distance and the corner's direction; when no corner is ahead it returns
\* the first recorded corner at (lap_length - normalized) + its normalized position
C29_NextCornerIsNearestAhead ==
    (~track_map.first_lap /\ ~IsNone(track_map.lap_length) /\ Val(track_map.lap_length) > 0)
    => \A e \in QueryEncoders :
          LET len == Val(track_map.lap_length)
              normalized == PyMod(e, len)
              Norm(i) == PyMod(track_map.corners[i].encoder_pos, len)
              ahead == {i \in 1..Len(track_map.corners) : Norm(i) > normalized}
              r == get_next_corner(track_map, e)
          IN IF ahead = {}
             THEN r = Return(Some(<<(len - normalized) + Norm(1),
                                    track_map.corners[1].direction>>))
             ELSE \E i \in ahead :
                     /\ \A j \in ahead : Norm(i) <= Norm(j)
                     /\ r = Return(Some(<<Norm(i) - normalized,
                                          track_map.corners[i].direction>>))


\* laps past the recorded one at which a section is queried again
MaxLapsAhead == 1

\* C30: after the first lap, every encoder value inside a recorded section's
\* bounds, taken on the recorded lap or any later one, makes get_section_width
\* return that section's average width (or that of an earlier recorded section
\* which contains the position as well)
C30_SectionWidthInsideBounds ==
    (~track_map.first_lap /\ ~IsNone(track_map.lap_length) /\ Val(track_map.lap_length) > 0)
    => \A i \in 1..Len(track_map.sections) :
          LET s == track_map.sections[i]
              len == Val(track_map.lap_length)
              Contains(j, n) ==
                  /\ PyMod(track_map.sections[j].start_encoder, len) <= n
                  /\ n <= PyMod(track_map.sections[j].end_encoder, len)
          IN \A e \in {s.start_encoder, (s.start_encoder + s.end_encoder) \div 2,
                       s.end_encoder} :
                \A k \in 0..MaxLapsAhead :
                   (s.start_encoder <= e /\ e <= s.end_encoder)
                   => LET r == get_section_width(track_map, e + k * len)
                      IN \/ r = Return(Some(s.width))
                         \/ \E j \in 1..(i - 1) :
                               /\ Contains(j, PyMod(e + k * len, len))
                               /\ r = Return(Some(track_map.sections[j].width))


\* the colours of the sighted pillars that have no record within
\* pillar_tolerance of the encoder
ColoursToRecord(records, w) ==
    {c \in Colors :
        /\ \E i \in 1..Len(w.pillars) : w.pillars[i].color = c
        /\ \A k \in 1..Len(records) :
              ~(records[k].color = c
                /\ Abs(records[k].encoder_pos - w.encoder_pos) < pillar_tolerance)}

\* C31: after every update() two records of one colour are at least
\* pillar_tolerance apart, and the update appends one record at the current
\* encoder for exactly the sighted colours that had no record within
\* pillar_tolerance, two pillars of one colour in one WorldState included
C31_PillarRecordsApart ==
    [][LET old == track_map.pillars
           new == track_map'.pillars
       IN /\ \A i, j \in 1..Len(new) :
                (i # j /\ new[i].color = new[j].color)
                => Abs(new[i].encoder_pos - new[j].encoder_pos) >= pillar_tolerance
          /\ Len(new) >= Len(old)
          /\ SubSeq(new, 1, Len(old)) = old
          /\ \A k \in (Len(old) + 1)..Len(new) : new[k].encoder_pos = world'.encoder_pos
          /\ {new[k].color : k \in (Len(old) + 1)..Len(new)} = ColoursToRecord(old, world')
          /\ Len(new) - Len(old) = Cardinality(ColoursToRecord(old, world'))]_vars

\* a second red record was appended 50 ticks from the first while a
\* WorldState with two red pillars was recorded once
C31_Witness ==
    /\ Len(track_map.pillars) >= 2
    /\ \E i, j \in 1..Len(track_map.pillars) :
          /\ i # j
          /\ track_map.pillars[i].color = "red"
          /\ track_map.pillars[j].color = "red"
          /\ Abs(track_map.pillars[i].encoder_pos - track_map.pillars[j].encoder_pos)
                = pillar_tolerance
    /\ Len(world.pillars) = 2
    /\ world.pillars[1].color = world.pillars[2].color
    /\ track_map.pillars[Len(track_map.pillars)].encoder_pos = world.encoder_pos


\* C32: in one fusion call each Pillar has a red/green blob of its own and a
\* size-eligible cluster of its own, so the pillars are at most as many as the
\* red/green blobs and as the eligible clusters, and none is magenta
C32_OnePillarPerBlobAndCluster ==
    LET ps == world.pillars
        n == Len(ps)
        pillarBlobs == {b \in 1..Len(blobs) : IsPillarBlob(blobs[b])}
        eligible == {i \in 1..Len(objects) : SizeEligible(objects[i])}
    IN /\ n <= Cardinality(pillarBlobs)
       /\ n <= Cardinality(eligible)
       /\ \A k \in 1..n : ps[k].color # "magenta"
       /\ \E f \in [1..n -> pillarBlobs] :
             /\ \A k, l \in 1..n : f[k] = f[l] => k = l
             /\ \A k \in 1..n : /\ blobs[f[k]].color = ps[k].color
                                /\ blobs[f[k]].angle = ps[k].angle
       /\ \E g \in [1..n -> eligible] :
             /\ \A k, l \in 1..n : g[k] = g[l] => k = l
             /\ \A k \in 1..n : objects[g[k]].distance = ps[k].distance

\* two red/green blobs both within the threshold of the only eligible
\* cluster, and a single Pillar came out
C32_Witness ==
    /\ Len(blobs) = 2
    /\ \A b \in 1..2 : IsPillarBlob(blobs[b])
    /\ Cardinality({i \in 1..Len(objects) : SizeEligible(objects[i])}) = 1
    /\ \A b \in 1..2 : MatchCandidates(blobs[b], objects, {}) # {}
    /\ Len(world.pillars) = 1


C34_NoExitWhileLatchedPillarNear ==
    [][(/\ Decide(world')
        /\ state_machine.state = "AVOID_PILLAR"
        /\ \E i \in 1..Len(world'.pillars) :
              /\ Some(world'.pillars[i].color) = state_machine.avoiding_pillar
              /\ world'.pillars[i].distance <= clear_distance
              /\ Abs(world'.pillars[i].angle) <= clear_angle)
        => state_machine'.state # "WALL_FOLLOW"]_vars


(***************************************************************************)
(* Claims checked under ParkSpec                                           *)
(***************************************************************************)
\* C35: with target_laps = 3, WALL_FOLLOW is only held with lap_count below 3
\* (the decide() call that sets lap_count to 3 or more ends in DONE), so the
\* WALL_FOLLOW to PARKING rule never fires and the state is never PARKING
C35_ParkingNeverEntered ==
    /\ state_machine.state = "WALL_FOLLOW" => state_machine.lap_count < 3
    /\ state_machine.lap_count >= 3 => state_machine.state = "DONE"
    /\ state_machine.state # "PARKING"

\* the twelfth corner was left with the parking marker in view: lap_count is 3
\* and the state is DONE
C35_Witness ==
    /\ state_machine.state = "DONE"
    /\ state_machine.lap_count = 3
    /\ corner_count(track_map) = 12
    /\ IsNone(world.corner_ahead)
    /\ ~IsNone(world.parking_marker)


(***************************************************************************)
(* Further claims checked under TrackSpec: the lap length                  *)
(***************************************************************************)
\* C36: whenever lap_length is set it is strictly positive, whatever the
\* WorldStates passed to update(), a decreasing encoder included
C36_LapLengthPositive ==
    ~IsNone(track_map.lap_length) => Val(track_map.lap_length) > 0


(***************************************************************************)
(* Claims checked under SightingSpec                                       *)
(***************************************************************************)
\* C37: one continuous corner sighting appends at most one Corner, however
\* far the encoder advances during it, so the map never holds more corners
\* than sightings have begun
C37_OneCornerPerSighting ==
    corner_count(track_map) <= hSightings


(***************************************************************************)
(* Claims checked under RaceSpec                                           *)
(***************************************************************************)
\* the (speed, steering) pairs that one request sets together: the targets at
\* construction, the pair of each request, and a request's steering with the
\* speed zeroed by emergency_stop
PairsSetTogether ==
    {<<0, STEERING_CENTER>>} \cup RaceTargets \cup {<<0, p[2]>> : p \in RaceTargets}

\* C38 as stated: every C: frame on the link carries a speed and a steering
\* that one decide output or one drive/stop request set together, under
\* every interleaving of the keepalive thread with the event loop
C38_FramePairsSetTogether ==
    ~IsNone(serial.command)
        => <<Val(serial.command)[1], SERVO_RANGE - Val(serial.command)[2]>>
              \in PairsSetTogether


\* C38, at field granularity: every C: frame on the link carries a speed that
\* some request set and a steering that some request set, each read whole;
\* the two may come from different requests
C38_FrameFieldsWhole ==
    ~IsNone(serial.command)
        => /\ Val(serial.command)[1] \in {p[1] : p \in PairsSetTogether}
           /\ SERVO_RANGE - Val(serial.command)[2] \in {p[2] : p \in PairsSetTogether}

\* the keepalive wrote a frame between the two assignments of a request: the
\* frame has the request's speed and the steering of the request before it
C38_Witness ==
    /\ threads.ev = "steering_pending"
    /\ ~IsNone(serial.command)
    /\ Val(serial.command)[1] = motor.speed
    /\ SERVO_RANGE - Val(serial.command)[2] # Val(threads.pending)
    /\ <<Val(serial.command)[1], SERVO_RANGE - Val(serial.command)[2]>> \notin PairsSetTogether


\* C39: during shutdown, once disconnect() has written the emergency stop E
\* no frame with a non-zero speed is written to the link, and the keepalive
\* never writes to the port after it was closed, under every interleaving of
\* the keepalive thread with the shutdown sequence
C39_QuietAfterEstop ==
    /\ ~threads.late_frame
    /\ ~threads.closed_write


(***************************************************************************)
(* Claims checked under ScanSpec                                           *)
(***************************************************************************)

\* C40: when the reading at angle 0 that closes a rotation has been processed
\* and the rotation had accepted readings at more than 180 distinct angles, the
\* loop has published an averaged scan during that rotation and both
\* accumulation dicts are empty, whether or not the reading at angle 0 passed
\* the filters
C40_FullRotationPublished ==
    (/\ lidar.loop.rotations > 0
     /\ lidar.loop.angle = 0
     /\ Cardinality(lidar.loop.hAccepted) > FullRotationAngles)
    => /\ lidar.loop.hPublished
       /\ DOMAIN lidar.loop.current_scan = {}
       /\ DOMAIN lidar.loop.current_quality = {}

====
